---- MODULE Spec2Model ----
(***************************************************************************)
(* State-machine model of the activation state machine                     *)
(* (src/activation/mod.rs) and of the configuration supervisor             *)
(* (src/config/manager.rs).                                                *)
(*                                                                         *)
(* Time is discrete.  In the activation model one tick is one second (the  *)
(* unit of timeout_secs).  A tick passes only when no task has a step left *)
(* that it must take at this instant; steps that fall into the same tick   *)
(* may be taken in any order.  The 100ms sleep of the timer task's poll    *)
(* loop is shorter than a tick: it ends in the tick it started in or in    *)
(* the next one.                                                           *)
(*                                                                         *)
(* The configuration model keeps a clock in milliseconds (now) that a      *)
(* specification advances in steps of a fixed length (step) up to a        *)
(* horizon; instants (tokio::time::Instant) are values of that clock and   *)
(* durations are the source's, in milliseconds.  Time passes under the     *)
(* same rule: only when no task has a step to take at this instant.        *)
(***************************************************************************)
EXTENDS Naturals, Integers, Sequences, FiniteSets, TLC

VARIABLES
    \* ---- ActivationManager / ManagerInner -------------------------------
    state,            \* ManagerInner.state : SystemState
    transition,       \* ManagerInner.transition : StateTransition
    state_tx,         \* the watch channel: [value, version]
    timeout_secs,     \* ManagerInner.timeout_secs
    activity,         \* ManagerInner.activity : Notify (TRUE = a stored permit)
    timeout_changed,  \* ManagerInner.timeout_changed : Notify
    \* ---- the timer task (spawn_timer_task) ------------------------------
    tpc,              \* position of the timer task
    timerSleep,       \* ticks left of the tokio::time::sleep the task waits on
    armedWith,        \* timeout (secs) the running sleep_future was created with
    armCause,         \* what created the running sleep_future
    \* ---- the caller of wake / sleep / on_*_activity ---------------------
    cpc,              \* position of the caller inside the method it runs
    \* ---- subscribers (watch::Receiver) ----------------------------------
    subAlive,         \* receivers that exist
    subUnseen,        \* per receiver: the channel's version differs from the
                      \* version the receiver has marked seen (has_changed)
    \* ---- history (not program state) ------------------------------------
    sinceAct,         \* while Awake: ticks since the last wake or activity call
                      \* (capped at SinceCap); SinceCap while Asleep
    quiet,            \* Awake, and no activity or set_timeout call since the wake
    lastSent,         \* the pair handed to the last state_tx.send call
    sentSince,        \* per receiver: a send was made since it subscribed
    \* ---- the clock of the configuration model ---------------------------
    now,              \* tokio::time::Instant::now(), ms since ConfigManager::new
    step,             \* ms by which the clock advances (fixed by the specification)
    horizon,          \* the clock does not advance beyond it (fixed likewise)
    \* ---- the configuration directory ------------------------------------
    file,             \* config.toml: its body, or missing
    \* ---- ConfigManager ---------------------------------------------------
    tx,               \* watch channel of Arc<Config>: [value, version]
    health_tx,        \* watch channel of WatcherHealth: [value, version]
    \* ---- the supervisor task (spawn_supervisor) -------------------------
    spc,              \* position of the supervisor task
    attempt_count,    \* restart_state.attempt_count
    start_time,       \* start_time of the watcher the supervisor waits on
    backoff_until,    \* instant at which tokio::time::sleep(backoff) ends
    watched,          \* the watch loop whose JoinHandle the supervisor holds
    \* ---- the watch loops (watch_config_file), per spawned task ----------
    lst,              \* "none", "setup", "running", "exited" (ended, handle held)
    inbox,            \* the message waiting in event_rx
    debounce_timer,   \* Option<Instant>
    consecutive_notify_errors,  \* error_tracker.consecutive_notify_errors
    last_notify_error_time,     \* error_tracker.last_notify_error_time
    inactivity_deadline,        \* last_event_time + WATCHER_INACTIVITY_TIMEOUT
    \* ---- history (not program state) ------------------------------------
    sinceWrite,       \* ms since the last create/modify of config.toml, capped
                      \* at the debounce duration
    reloadsAfter,     \* reload_config calls made a full debounce duration or
                      \* more after that event, since it
    publishesAfter,   \* those of them that published
    lastReload,       \* outcome of the last reload_config call
    deaths,           \* watch-loop exits the supervisor has seen since the
                      \* retry counter was last due for a reset
    \* ---- the owners of the three tasks ----------------------------------
    amAlive,          \* the ActivationManager value exists (not yet dropped)
    cmAlive,          \* the ConfigManager value exists (not yet dropped)
    \* ---- OverlayManager and its task (overlay/manager.rs) --------------
    opc,              \* "off" (no OverlayManager), "init", "loop", "exited"
    overlay,          \* the task's Option<Box<dyn OverlayBackend>>
    shown,            \* color of the last update_color the backend accepted
    has_error,        \* OverlayRenderState.has_error
    system_state,     \* OverlayRenderState.system_state
    config,           \* OverlayRenderState.config
    last_color,       \* the task's last_color: Option<OverlayColor>
    recon_attempt_count,   \* ReconnectionState.attempt_count
    last_attempt,          \* ReconnectionState.last_attempt
    health_check_interval, \* instant of the next tick of the 2s interval
    reconnection_interval, \* instant of the next tick of the 1s interval
    config_rx,        \* version config_rx has seen
    config_health_rx, \* version config_health_rx has seen
    faults,           \* the calls that can return Err in this run, among
                      \* "factory", "connect" and "update_color"
    \* ---- history (not program state) ------------------------------------
    ops,              \* calls the last handler made on the factory and on
                      \* backends, in order
    tick_due,         \* the last attempt of the reconnection tick plus the
                      \* backoff in force after it (0: no attempt yet)
    \* ---- the overlay task at the grain of its mutexes -------------------
    lpc,              \* the task's position: labels of the suspended callers
                      \* below that of the running function
    held,             \* the MutexGuards the task holds, oldest first
    calling,          \* the backend call in progress, or "none"
    task_overlay,     \* the task's overlay is Some
    reader,           \* the accessor of OverlayManager holding its guard,
                      \* or "idle"
    order,            \* history: <<a, b>> when b was locked while a was held
    \* ---- WaylandOverlay and its protocol (overlay/wayland) --------------
    wl,               \* "none" (not constructed) or "idle" (between calls)
    surface_closed,   \* WaylandOverlay.surface_closed
    protocol_connected,    \* the protocol's connected
    closed,           \* what the protocol's is_surface_closed() returns
    inject_connect_error,  \* connect() of the protocol returns Err
    inject_buffer_error,   \* update_buffer() of the protocol returns Err
    connect_count,    \* successful connect() calls of the protocol
    disconnect_count, \* disconnect() calls of the protocol
    update_buffer_count,   \* successful update_buffer() calls
    \* ---- history (not program state) ------------------------------------
    cycles,           \* update_color calls begun with the surface closed
    result,           \* what the last call on the WaylandOverlay returned
    calls             \* calls the last update_color made on the protocol

actVars == <<state, transition, state_tx, timeout_secs, activity, timeout_changed,
             tpc, timerSleep, armedWith, armCause, cpc,
             subAlive, subUnseen, sinceAct, quiet, lastSent, sentSince>>

clockVars == <<now, step, horizon>>
supVars == <<spc, attempt_count, start_time, backoff_until, watched, health_tx>>
loopVars == <<lst, inbox, debounce_timer, consecutive_notify_errors,
              last_notify_error_time, inactivity_deadline>>
cfgHistVars == <<sinceWrite, reloadsAfter, publishesAfter, lastReload, deaths>>
cfgVars == <<clockVars, file, tx, supVars, loopVars, cfgHistVars>>

ownerVars == <<amAlive, cmAlive>>
lockVars == <<lpc, held, calling, task_overlay, reader, order>>
wlVars == <<wl, surface_closed, protocol_connected, closed, inject_connect_error,
            inject_buffer_error, connect_count, disconnect_count,
            update_buffer_count, cycles, result, calls>>
partVars == <<lockVars, wlVars>>
ovVars == <<opc, overlay, shown, has_error, system_state, config, last_color,
            recon_attempt_count, last_attempt, health_check_interval,
            reconnection_interval, config_rx, config_health_rx, faults, ops,
            tick_due>>

vars == <<actVars, cfgVars, ownerVars, partVars, ovVars>>

----------------------------------------------------------------------------
\* Bounds of the model.
MaxTimeoutSecs == 2
\* wake is explored while the channel's version can still take the publishes
\* of one more awake period (the wake and the sleep that ends it).
MaxVersion == 4
NumSubs == 2

\* Tick boundaries the poll loop's Duration::from_millis(100) sleep can cross.
PollTicks == 1

Subs == 1..NumSubs
SinceCap == MaxTimeoutSecs + 1
\* Durations (ms) handed to set_timeout: whole seconds and one sub-second value.
TimeoutChoicesMs == {500} \cup {1000 * k : k \in 1..MaxTimeoutSecs}

SystemState == {"Asleep", "Awake"}
StateTransition == {"WakeWord", "SleepCommand", "InactivityTimeout"}

Min(a, b) == IF a < b THEN a ELSE b
\* a - b, or 0 when b > a
Monus(a, b) == IF a > b THEN a - b ELSE 0

\* Duration::as_secs: whole seconds, the sub-second part dropped.
AsSecs(ms) == ms \div 1000
\* Duration::from_secs(s), in ticks.
FromSecs(s) == s

----------------------------------------------------------------------------
\* tokio::sync::watch

\* watch::channel(init)
WatchChannel(init) == [value |-> init, version |-> 0]

\* watch::Sender::send: fails, leaving the value as it is, when no receiver
\* exists; otherwise replaces the value and bumps the version.
WatchSend(ch, alive, v) ==
    IF alive = {} THEN ch
    ELSE [value |-> v, version |-> ch.version + 1]

----------------------------------------------------------------------------
\* ActivationManager::new
ActInit ==
    /\ state = "Asleep"
    /\ transition = "WakeWord"
    /\ state_tx = WatchChannel(<<"Asleep", "WakeWord">>)
    /\ timeout_secs \in 1..MaxTimeoutSecs
    /\ activity = FALSE
    /\ timeout_changed = FALSE
    /\ tpc = "poll"
    /\ timerSleep = 0
    /\ armedWith = 0
    /\ armCause = "none"
    /\ cpc = "idle"
    /\ subAlive = {}
    /\ subUnseen = [i \in Subs |-> FALSE]
    /\ sinceAct = SinceCap
    /\ quiet = FALSE
    /\ lastSent = <<"none", "none">>
    /\ sentSince = [i \in Subs |-> FALSE]

\* The caller is between two calls.
\* ("noop_x": the last call was x and it found nothing to do.)
CallerIdle == cpc \in {"idle", "noop_wake", "noop_sleep", "noop_activity"}

timerVars == <<tpc, timerSleep, armedWith, armCause>>
subVars == <<subAlive, subUnseen>>

\* a send that does not reach the channel
PublishDropped(pair) ==
    /\ lastSent' = pair
    /\ sentSince' = [i \in Subs |-> IF i \in subAlive THEN TRUE ELSE sentSince[i]]
    /\ UNCHANGED <<state_tx, subUnseen>>

\* state_tx.send(pair), with the history of what was handed to it.
Publish(pair) ==
    /\ state_tx' = WatchSend(state_tx, subAlive, pair)
    /\ subUnseen' = [i \in Subs |-> IF i \in subAlive THEN TRUE ELSE subUnseen[i]]
    /\ lastSent' = pair
    /\ sentSince' = [i \in Subs |-> IF i \in subAlive THEN TRUE ELSE sentSince[i]]

----------------------------------------------------------------------------
\* wake_via_wake_word, step by step (the locks are released between steps).

\* wake without the test of the current state
WakeLockUnguarded ==
    /\ CallerIdle
    /\ state_tx.version + 2 <= MaxVersion
    /\ state' = "Awake"
    /\ cpc' = "wake_transition"
    /\ sinceAct' = 0
    /\ quiet' = TRUE
    /\ UNCHANGED <<transition, state_tx, timeout_secs, activity, timeout_changed,
                   tpc, timerSleep, armedWith, armCause, subAlive, subUnseen,
                   lastSent, sentSince>>

\* lines 124-127: lock state; if Asleep set Awake.
WakeLock ==
    /\ CallerIdle
    /\ IF state = "Asleep"
       THEN /\ state_tx.version + 2 <= MaxVersion
            /\ state' = "Awake"
            /\ cpc' = "wake_transition"
            /\ sinceAct' = 0
            /\ quiet' = TRUE
       ELSE /\ cpc' = "noop_wake"
            /\ UNCHANGED <<state, sinceAct, quiet>>
    /\ UNCHANGED <<transition, state_tx, timeout_secs, activity, timeout_changed,
                   timerVars, subVars, lastSent, sentSince>>

\* lines 128-130
WakeTransition ==
    /\ cpc = "wake_transition"
    /\ transition' = "WakeWord"
    /\ cpc' = "wake_send"
    /\ UNCHANGED <<state, state_tx, timeout_secs, activity, timeout_changed,
                   timerVars, subVars, sinceAct, quiet, lastSent, sentSince>>

\* line 131
WakeSend ==
    /\ cpc = "wake_send"
    /\ Publish(<<"Awake", "WakeWord">>)
    /\ cpc' = "wake_notify"
    /\ UNCHANGED <<state, transition, timeout_secs, activity, timeout_changed,
                   timerVars, subAlive, sinceAct, quiet>>

\* line 133
WakeNotify ==
    /\ cpc = "wake_notify"
    /\ activity' = TRUE
    /\ cpc' = "idle"
    /\ UNCHANGED <<state, transition, state_tx, timeout_secs, timeout_changed,
                   timerVars, subVars, sinceAct, quiet, lastSent, sentSince>>

----------------------------------------------------------------------------
\* sleep_via_command

\* lines 141-144
SleepLock ==
    /\ CallerIdle
    /\ IF state = "Awake"
       THEN /\ state' = "Asleep"
            /\ cpc' = "sleep_transition"
            /\ quiet' = FALSE
            /\ sinceAct' = SinceCap
       ELSE /\ cpc' = "noop_sleep"
            /\ UNCHANGED <<state, quiet, sinceAct>>
    /\ UNCHANGED <<transition, state_tx, timeout_secs, activity, timeout_changed,
                   timerVars, subVars, lastSent, sentSince>>

\* lines 145-147
SleepTransition ==
    /\ cpc = "sleep_transition"
    /\ transition' = "SleepCommand"
    /\ cpc' = "sleep_send"
    /\ UNCHANGED <<state, state_tx, timeout_secs, activity, timeout_changed,
                   timerVars, subVars, sinceAct, quiet, lastSent, sentSince>>

\* line 148
SleepSend ==
    /\ cpc = "sleep_send"
    /\ Publish(<<"Asleep", "SleepCommand">>)
    /\ cpc' = "idle"
    /\ UNCHANGED <<state, transition, timeout_secs, activity, timeout_changed,
                   timerVars, subAlive, sinceAct, quiet>>

----------------------------------------------------------------------------
\* on_command_activity / on_dictation_activity (the two bodies are the same)

\* the activity call without the test of the current state
ActivityLockUnguarded ==
    /\ CallerIdle
    /\ cpc' = "activity_notify"
    /\ sinceAct' = IF state = "Awake" THEN 0 ELSE sinceAct
    /\ quiet' = FALSE
    /\ UNCHANGED <<state, transition, state_tx, timeout_secs, activity, timeout_changed,
                   tpc, timerSleep, armedWith, armCause, subAlive, subUnseen,
                   lastSent, sentSince>>

\* lines 157-159 / 169-171: lock state, test Awake.
ActivityLock ==
    /\ CallerIdle
    /\ IF state = "Awake"
       THEN /\ cpc' = "activity_notify"
            /\ sinceAct' = 0
            /\ quiet' = FALSE
       ELSE /\ cpc' = "noop_activity"
            /\ UNCHANGED <<sinceAct, quiet>>
    /\ UNCHANGED <<state, transition, state_tx, timeout_secs, activity, timeout_changed,
                   timerVars, subVars, lastSent, sentSince>>

\* line 161 / 173
ActivityNotify ==
    /\ cpc = "activity_notify"
    /\ activity' = TRUE
    /\ cpc' = "idle"
    /\ UNCHANGED <<state, transition, state_tx, timeout_secs, timeout_changed,
                   timerVars, subVars, sinceAct, quiet, lastSent, sentSince>>

on_command_activity == ActivityLock \/ ActivityNotify
on_dictation_activity == ActivityLock \/ ActivityNotify

----------------------------------------------------------------------------
\* set_timeout (called from the configuration task, concurrently with the caller)
set_timeout(ms) ==
    /\ timeout_secs' = AsSecs(ms)
    /\ timeout_changed' = TRUE
    /\ quiet' = FALSE
    /\ UNCHANGED <<state, transition, state_tx, activity, timerVars, cpc,
                   subVars, sinceAct, lastSent, sentSince>>

SetTimeout == \E ms \in TimeoutChoicesMs : set_timeout(ms)

----------------------------------------------------------------------------
\* spawn_timer_task

\* sleep_future = tokio::time::sleep(Duration::from_secs(timeout_secs))
Arm(cause) ==
    /\ armedWith' = timeout_secs
    /\ timerSleep' = FromSecs(timeout_secs)
    /\ armCause' = cause

\* the sleep future is dropped (break out of the select loop)
Disarm ==
    /\ armedWith' = 0
    /\ armCause' = "none"

\* lines 184-198: the poll loop; on Awake the sleep future is created.
\* The 100ms sleep between two tests may end at any moment of the tick.
TimerPoll ==
    /\ tpc = "poll"
    /\ IF state = "Awake"
       THEN /\ tpc' = "select"
            /\ Arm("poll")
       ELSE /\ timerSleep' = PollTicks
            /\ UNCHANGED <<tpc, armedWith, armCause>>
    /\ UNCHANGED <<state, transition, state_tx, timeout_secs, activity, timeout_changed,
                   cpc, subVars, sinceAct, quiet, lastSent, sentSince>>

\* lines 202-206, 213: the sleep branch of the select.
TimerElapsed ==
    /\ tpc = "select"
    /\ timerSleep = 0
    /\ IF state = "Awake"
       THEN /\ state' = "Asleep"
            /\ tpc' = "timeout_transition"
            /\ quiet' = FALSE
            /\ sinceAct' = SinceCap
       ELSE /\ tpc' = "poll"
            /\ UNCHANGED <<state, quiet, sinceAct>>
    /\ Disarm
    /\ UNCHANGED <<transition, state_tx, timeout_secs, activity, timeout_changed,
                   timerSleep, cpc, subVars, lastSent, sentSince>>

\* lines 207-209
TimerTransition ==
    /\ tpc = "timeout_transition"
    /\ transition' = "InactivityTimeout"
    /\ tpc' = "timeout_send"
    /\ UNCHANGED <<state, state_tx, timeout_secs, activity, timeout_changed,
                   timerSleep, armedWith, armCause, cpc, subVars,
                   sinceAct, quiet, lastSent, sentSince>>

\* lines 210-213
TimerSend ==
    /\ tpc = "timeout_send"
    /\ Publish(<<"Asleep", "InactivityTimeout">>)
    /\ tpc' = "poll"
    /\ timerSleep' = 0
    /\ UNCHANGED <<state, transition, timeout_secs, activity, timeout_changed,
                   armedWith, armCause, cpc, subAlive, sinceAct, quiet>>

\* the activity branch leaving the running sleep future as it is
TimerActivityKeepsDeadline ==
    /\ tpc = "select"
    /\ activity
    /\ activity' = FALSE
    /\ IF state = "Asleep"
       THEN /\ tpc' = "poll"
            /\ timerSleep' = 0
            /\ armedWith' = 0
            /\ armCause' = "none"
       ELSE UNCHANGED <<tpc, timerSleep, armedWith, armCause>>
    /\ UNCHANGED <<state, transition, state_tx, timeout_secs, timeout_changed,
                   cpc, subAlive, subUnseen, sinceAct, quiet, lastSent, sentSince>>

\* lines 215-225: the activity branch of the select.
TimerActivity ==
    /\ tpc = "select"
    /\ activity
    /\ activity' = FALSE
    /\ IF state = "Asleep"
       THEN /\ tpc' = "poll"
            /\ timerSleep' = 0
            /\ Disarm
       ELSE /\ Arm("activity")
            /\ UNCHANGED tpc
    /\ UNCHANGED <<state, transition, state_tx, timeout_secs, timeout_changed,
                   cpc, subVars, sinceAct, quiet, lastSent, sentSince>>

\* the timeout_changed branch with the new deadline counted from the last
\* activity instead of from now
TimerTimeoutChangedFromActivity ==
    /\ tpc = "select"
    /\ timeout_changed
    /\ timeout_changed' = FALSE
    /\ IF state = "Asleep"
       THEN /\ tpc' = "poll"
            /\ timerSleep' = 0
            /\ armedWith' = 0
            /\ armCause' = "none"
       ELSE /\ armedWith' = timeout_secs
            /\ timerSleep' = Monus(FromSecs(timeout_secs), sinceAct)
            /\ armCause' = "timeout_changed"
            /\ UNCHANGED tpc
    /\ UNCHANGED <<state, transition, state_tx, timeout_secs, activity,
                   cpc, subAlive, subUnseen, sinceAct, quiet, lastSent, sentSince>>

\* lines 226-236: the timeout_changed branch of the select.
TimerTimeoutChanged ==
    /\ tpc = "select"
    /\ timeout_changed
    /\ timeout_changed' = FALSE
    /\ IF state = "Asleep"
       THEN /\ tpc' = "poll"
            /\ timerSleep' = 0
            /\ Disarm
       ELSE /\ Arm("timeout_changed")
            /\ UNCHANGED tpc
    /\ UNCHANGED <<state, transition, state_tx, timeout_secs, activity,
                   cpc, subVars, sinceAct, quiet, lastSent, sentSince>>

\* The timer task has a step it can take without time passing.
TimerReady ==
    \/ tpc = "poll" /\ timerSleep = 0
    \/ tpc = "select" /\ (timerSleep = 0 \/ activity \/ timeout_changed)
    \/ tpc \in {"timeout_transition", "timeout_send"}

----------------------------------------------------------------------------
\* Subscribers

\* ActivationManager::subscribe: a new receiver, the current version seen.
Subscribe(i) ==
    /\ i \notin subAlive
    /\ subAlive' = subAlive \cup {i}
    /\ subUnseen' = [subUnseen EXCEPT ![i] = FALSE]
    /\ sentSince' = [sentSince EXCEPT ![i] = FALSE]
    /\ UNCHANGED <<state, transition, state_tx, timeout_secs, activity, timeout_changed,
                   timerVars, cpc, sinceAct, quiet, lastSent>>

\* the receiver is dropped
Unsubscribe(i) ==
    /\ i \in subAlive
    /\ subAlive' = subAlive \ {i}
    /\ subUnseen' = [subUnseen EXCEPT ![i] = FALSE]
    /\ sentSince' = [sentSince EXCEPT ![i] = FALSE]
    /\ UNCHANGED <<state, transition, state_tx, timeout_secs, activity, timeout_changed,
                   timerVars, cpc, sinceAct, quiet, lastSent>>

\* watch::Receiver::changed resolves: the version differs from the one seen.
SubChanged(i) ==
    /\ i \in subAlive
    /\ subUnseen[i]
    /\ subUnseen' = [subUnseen EXCEPT ![i] = FALSE]
    /\ UNCHANGED <<state, transition, state_tx, timeout_secs, activity, timeout_changed,
                   timerVars, cpc, subAlive, sinceAct, quiet,
                   lastSent, sentSince>>

\* watch::Receiver::borrow: the value a receiver reads now.
Borrow == state_tx.value

----------------------------------------------------------------------------
\* One second passes: no task has a step left to take at this instant.
Tick ==
    /\ ~TimerReady
    /\ CallerIdle
    /\ timerSleep' = timerSleep - 1
    /\ sinceAct' = IF state = "Awake" THEN Min(sinceAct + 1, SinceCap) ELSE sinceAct
    /\ UNCHANGED <<state, transition, state_tx, timeout_secs, activity, timeout_changed,
                   tpc, armedWith, armCause, cpc, subVars, quiet,
                   lastSent, sentSince>>

----------------------------------------------------------------------------
\* Configuration manager: src/config/manager.rs

\* Bounds of the configuration model.
NumConfigs == 2
\* a watch loop can be started every HEALTHY_DURATION_SECS of the longest run
MaxLoops == 6
\* a valid body is written while the channel's version can still take the
\* publish of every running watch loop
MaxCfgVersion == 3
\* clock steps of the two specifications
CfgSteps == 122
SupSteps == 32

\* Constants of the program.
DebounceMs == 500
max_consecutive_errors == 5
ErrorWindowSecs == 10
WatcherInactivitySecs == 300
MAX_RESTART_ATTEMPTS == 5
HEALTHY_DURATION_SECS == 60
base_ms == 1000
MaxShift == 5

Loops == 1..MaxLoops
Configs == 1..NumConfigs
\* Config::default()
DefaultConfig == 0

\* Option::None of an Option<Instant>
None == -1

\* Duration::from_secs(s), in ms.
SecsToMs(s) == s * 1000

\* An instant beyond the horizon is never reached: all such are kept as one.
Beyond(t) == IF t > horizon THEN horizon + step ELSE t

\* 1 << k
RECURSIVE Shl(_, _)
Shl(x, k) == IF k = 0 THEN x ELSE Shl(2 * x, k - 1)

\* Bodies of config.toml: a TOML document of a Config, text that does not
\* parse, or no readable file.
Toml(c) == <<"toml", c>>
Garbage == <<"garbage">>
Missing == <<"missing">>
FileBodies == {Toml(c) : c \in Configs} \cup {Garbage, Missing}

\* Config::load_from_path: defaults when the file is missing or does not parse.
load_from_path(body) == IF body[1] = "toml" THEN body[2] ELSE DefaultConfig

\* WatcherHealth
Healthy == <<"Healthy">>
Restarting(attempt) == <<"Restarting", attempt>>
Failed == <<"Failed">>

\* WatcherMessage, and what of a notify Event the loop looks at: whether a
\* path is config.toml, and the kind.
NoMsg == <<"none">>
Event(isConfig, kind) == <<"Event", isConfig, kind>>
NotifyError == <<"NotifyError">>

\* Receivers of the two channels: ConfigManager keeps rx and health_rx for as
\* long as it lives, the overlay task its clones for as long as it runs.
ConfigReceivers ==
    (IF cmAlive THEN {"rx"} ELSE {})
    \cup (IF opc \in {"init", "loop"} THEN {"config_rx"} ELSE {})

HealthReceivers ==
    (IF cmAlive THEN {"health_rx"} ELSE {})
    \cup (IF opc \in {"init", "loop"} THEN {"config_health_rx"} ELSE {})

\* ConfigManager::new_internal, before the supervisor task has run.
CfgInit(stepMs, steps) ==
    /\ now = 0
    /\ step = stepMs
    /\ horizon = steps * stepMs
    /\ file \in FileBodies
    /\ tx = WatchChannel(load_from_path(file))
    /\ health_tx = WatchChannel(Healthy)
    /\ spc = "start"
    /\ attempt_count = 0
    /\ start_time = None
    /\ backoff_until = None
    /\ watched = 0
    /\ lst = [l \in Loops |-> "none"]
    /\ inbox = [l \in Loops |-> NoMsg]
    /\ debounce_timer = [l \in Loops |-> None]
    /\ consecutive_notify_errors = [l \in Loops |-> 0]
    /\ last_notify_error_time = [l \in Loops |-> None]
    /\ inactivity_deadline = [l \in Loops |-> None]
    /\ sinceWrite = DebounceMs
    /\ reloadsAfter = 0
    /\ publishesAfter = 0
    /\ lastReload = "none"
    /\ deaths = 0

----------------------------------------------------------------------------
\* WatcherRestartState

should_retry_inclusive(a) == a <= MAX_RESTART_ATTEMPTS

\* lines 81-83
should_retry(a) == a < MAX_RESTART_ATTEMPTS

\* lines 85-88: the new attempt_count, which is also the value returned
record_attempt(a) == a + 1

\* backoff from the attempt count before it was incremented
backoff_duration_previous(a) == base_ms * Shl(1, Min(a - 1, MaxShift))

\* lines 94-98, in ms
backoff_duration(a) == base_ms * Shl(1, Min(a, MaxShift))

----------------------------------------------------------------------------
\* WatcherErrorTracker

\* A tracker that never forgets earlier errors.
record_error_keeps_count(count, last) ==
    [count |-> count + 1,
     last  |-> now,
     fatal |-> count + 1 >= max_consecutive_errors]

\* lines 29-42: the tracker after the error, and the value returned
record_error(count, last) ==
    LET kept == IF last # None /\ now - last > SecsToMs(ErrorWindowSecs)
                THEN 0 ELSE count
    IN [count |-> kept + 1,
        last  |-> now,
        fatal |-> kept + 1 >= max_consecutive_errors]

----------------------------------------------------------------------------
\* reload_config: the channel after the call, what happened, and whether the
\* call returned Err.

\* a reload that falls back to the defaults as load_from_path does
reload_config_or_default(ch, body) ==
    IF ConfigReceivers = {}
    THEN [tx |-> ch, result |-> "send_error", err |-> TRUE]
    ELSE [tx |-> WatchSend(ch, ConfigReceivers, load_from_path(body)),
          result |-> IF body[1] = "toml" THEN "ok"
                     ELSE IF body[1] = "missing" THEN "read_error" ELSE "parse_error",
          err |-> FALSE]

\* a reload that ignores the result of tx.send
reload_config_send_ignored(ch, body) ==
    IF body[1] = "missing"
    THEN [tx |-> ch, result |-> "read_error", err |-> FALSE]
    ELSE IF body[1] # "toml"
    THEN [tx |-> ch, result |-> "parse_error", err |-> FALSE]
    ELSE IF ConfigReceivers = {}
    THEN [tx |-> ch, result |-> "send_error", err |-> FALSE]
    ELSE [tx |-> WatchSend(ch, ConfigReceivers, body[2]), result |-> "ok", err |-> FALSE]

\* lines 379-404
reload_config(ch, body) ==
    IF body[1] = "missing"
    THEN [tx |-> ch, result |-> "read_error", err |-> FALSE]
    ELSE IF body[1] # "toml"
    THEN [tx |-> ch, result |-> "parse_error", err |-> FALSE]
    ELSE IF ConfigReceivers = {}
    THEN [tx |-> ch, result |-> "send_error", err |-> TRUE]
    ELSE [tx |-> WatchSend(ch, ConfigReceivers, body[2]), result |-> "ok", err |-> FALSE]

----------------------------------------------------------------------------
\* watch_config_file, one instance per spawned task

\* The task ends: its watcher, queue and locals are dropped.  The supervisor
\* sees the end only through the JoinHandle it holds.
LoopReturns(l) ==
    /\ lst' = [lst EXCEPT ![l] = IF spc = "watching" /\ watched = l
                                 THEN "exited" ELSE "none"]
    /\ inbox' = [inbox EXCEPT ![l] = NoMsg]
    /\ debounce_timer' = [debounce_timer EXCEPT ![l] = None]
    /\ consecutive_notify_errors' = [consecutive_notify_errors EXCEPT ![l] = 0]
    /\ last_notify_error_time' = [last_notify_error_time EXCEPT ![l] = None]
    /\ inactivity_deadline' = [inactivity_deadline EXCEPT ![l] = None]

\* lines 244-283: directory, queue, watcher; any of the `?` may return Err.
LoopSetup(l, ok) ==
    /\ lst[l] = "setup"
    /\ IF ok
       THEN /\ lst' = [lst EXCEPT ![l] = "running"]
            /\ UNCHANGED <<inbox, debounce_timer, consecutive_notify_errors,
                           last_notify_error_time, inactivity_deadline>>
       ELSE LoopReturns(l)
    /\ UNCHANGED <<clockVars, file, tx, supVars, cfgHistVars>>

\* A loop that forgets its notify errors on every event of the directory.
LoopEventAnyFile(l) ==
    /\ lst[l] = "running"
    /\ inbox[l][1] = "Event"
    /\ inbox' = [inbox EXCEPT ![l] = NoMsg]
    /\ inactivity_deadline' =
          [inactivity_deadline EXCEPT ![l] = Beyond(now + SecsToMs(WatcherInactivitySecs))]
    /\ consecutive_notify_errors' = [consecutive_notify_errors EXCEPT ![l] = 0]
    /\ last_notify_error_time' = [last_notify_error_time EXCEPT ![l] = None]
    /\ debounce_timer' =
          IF inbox[l][2] /\ inbox[l][3] \in {"Create", "Modify"}
          THEN [debounce_timer EXCEPT ![l] = now + DebounceMs]
          ELSE debounce_timer
    /\ UNCHANGED <<clockVars, file, tx, supVars, lst, cfgHistVars>>

\* lines 289-313: an Event is received.
LoopEvent(l) ==
    /\ lst[l] = "running"
    /\ inbox[l][1] = "Event"
    /\ inbox' = [inbox EXCEPT ![l] = NoMsg]
    /\ inactivity_deadline' =
          [inactivity_deadline EXCEPT ![l] = Beyond(now + SecsToMs(WatcherInactivitySecs))]
    /\ IF ~inbox[l][2]
       THEN UNCHANGED <<debounce_timer, consecutive_notify_errors, last_notify_error_time>>
       ELSE /\ consecutive_notify_errors' = [consecutive_notify_errors EXCEPT ![l] = 0]
            /\ last_notify_error_time' = [last_notify_error_time EXCEPT ![l] = None]
            /\ debounce_timer' =
                  IF inbox[l][3] \in {"Create", "Modify"}
                  THEN [debounce_timer EXCEPT ![l] = now + DebounceMs]
                  ELSE debounce_timer
    /\ UNCHANGED <<clockVars, file, tx, supVars, lst, cfgHistVars>>

\* lines 314-335: a NotifyError is received.
LoopNotifyError(l) ==
    /\ lst[l] = "running"
    /\ inbox[l] = NotifyError
    /\ LET r == record_error(consecutive_notify_errors[l], last_notify_error_time[l])
       IN IF r.fatal
          THEN LoopReturns(l)
          ELSE /\ inbox' = [inbox EXCEPT ![l] = NoMsg]
               /\ inactivity_deadline' =
                     [inactivity_deadline EXCEPT ![l] = Beyond(now + SecsToMs(WatcherInactivitySecs))]
               /\ consecutive_notify_errors' =
                     [consecutive_notify_errors EXCEPT ![l] = r.count]
               /\ last_notify_error_time' = [last_notify_error_time EXCEPT ![l] = r.last]
               /\ UNCHANGED <<lst, debounce_timer>>
    /\ UNCHANGED <<clockVars, file, tx, supVars, cfgHistVars>>

\* lines 343-359: the debounce deadline has passed.
LoopDebounce(l) ==
    /\ lst[l] = "running"
    /\ debounce_timer[l] # None
    /\ now >= debounce_timer[l]
    /\ LET r == reload_config(tx, file)
       IN /\ tx' = r.tx
          /\ lastReload' = r.result
          /\ reloadsAfter' = IF sinceWrite >= DebounceMs THEN reloadsAfter + 1
                             ELSE reloadsAfter
          /\ publishesAfter' = IF sinceWrite >= DebounceMs /\ r.tx # tx
                               THEN publishesAfter + 1 ELSE publishesAfter
          /\ IF r.err
             THEN LoopReturns(l)
             ELSE /\ debounce_timer' = [debounce_timer EXCEPT ![l] = None]
                  /\ inactivity_deadline' =
                        [inactivity_deadline EXCEPT ![l] = Beyond(now + SecsToMs(WatcherInactivitySecs))]
                  /\ UNCHANGED <<lst, inbox, consecutive_notify_errors,
                                 last_notify_error_time>>
    /\ UNCHANGED <<clockVars, file, supVars, sinceWrite, deaths>>

\* lines 361-373: nothing was received for WATCHER_INACTIVITY_TIMEOUT.
LoopInactivity(l) ==
    /\ lst[l] = "running"
    /\ inactivity_deadline[l] # None
    /\ now >= inactivity_deadline[l]
    /\ LoopReturns(l)
    /\ UNCHANGED <<clockVars, file, tx, supVars, cfgHistVars>>

\* The loop has a branch of its select ready, or has not started yet.
LoopReady(l) ==
    \/ lst[l] = "setup"
    \/ /\ lst[l] = "running"
       /\ \/ inbox[l] # NoMsg
          \/ debounce_timer[l] # None /\ now >= debounce_timer[l]
          \/ inactivity_deadline[l] # None /\ now >= inactivity_deadline[l]

----------------------------------------------------------------------------
\* spawn_supervisor

\* spawn_watcher_internal: the new task takes the lowest unused place.
Spawned(l) ==
    /\ lst[l] = "none"
    /\ \A k \in Loops : lst[k] = "none" => l <= k

\* A supervisor that starts its loop body again after the Failed branch.
SupLaunchAfterFailed ==
    /\ \/ spc = "start"
       \/ spc = "backoff" /\ now >= backoff_until
       \/ spc = "failed"
    /\ \E l \in Loops :
          /\ Spawned(l)
          /\ lst' = [lst EXCEPT ![l] = "setup"]
          /\ watched' = l
    /\ health_tx' = IF attempt_count = 0
                    THEN WatchSend(health_tx, HealthReceivers, Healthy)
                    ELSE health_tx
    /\ start_time' = now
    /\ backoff_until' = None
    /\ spc' = "watching"
    /\ UNCHANGED <<clockVars, file, tx, attempt_count, inbox, debounce_timer,
                   consecutive_notify_errors, last_notify_error_time,
                   inactivity_deadline, cfgHistVars>>

\* lines 181-186, at the start and after a backoff sleep.
SupLaunch ==
    /\ \/ spc = "start"
       \/ spc = "backoff" /\ now >= backoff_until
    /\ \E l \in Loops :
          /\ Spawned(l)
          /\ lst' = [lst EXCEPT ![l] = "setup"]
          /\ watched' = l
    /\ health_tx' = IF attempt_count = 0
                    THEN WatchSend(health_tx, HealthReceivers, Healthy)
                    ELSE health_tx
    /\ start_time' = now
    /\ backoff_until' = None
    /\ spc' = "watching"
    /\ UNCHANGED <<clockVars, file, tx, attempt_count, inbox, debounce_timer,
                   consecutive_notify_errors, last_notify_error_time,
                   inactivity_deadline, cfgHistVars>>

\* A supervisor that keeps its retry counter whatever the uptime was.
SupExitNoReset ==
    /\ spc = "watching"
    /\ lst[watched] = "exited"
    /\ LET uptime == now - start_time
           count == attempt_count
       IN /\ IF should_retry(count)
             THEN /\ attempt_count' = record_attempt(count)
                  /\ health_tx' = WatchSend(health_tx, HealthReceivers,
                                            Restarting(record_attempt(count)))
                  /\ backoff_until' = now + backoff_duration(record_attempt(count))
                  /\ spc' = "backoff"
             ELSE /\ attempt_count' = count
                  /\ health_tx' = WatchSend(health_tx, HealthReceivers, Failed)
                  /\ backoff_until' = None
                  /\ spc' = "failed"
          /\ deaths' = IF AsSecs(uptime) >= HEALTHY_DURATION_SECS THEN 1 ELSE deaths + 1
    /\ lst' = [lst EXCEPT ![watched] = "none"]
    /\ watched' = 0
    /\ start_time' = None
    /\ UNCHANGED <<clockVars, file, tx, inbox, debounce_timer,
                   consecutive_notify_errors, last_notify_error_time,
                   inactivity_deadline, sinceWrite, reloadsAfter, publishesAfter,
                   lastReload>>

\* lines 189-220: the watcher's JoinHandle completes.
SupExit ==
    /\ spc = "watching"
    /\ lst[watched] = "exited"
    /\ LET uptime == now - start_time
           count == IF AsSecs(uptime) >= HEALTHY_DURATION_SECS THEN 0 ELSE attempt_count
       IN /\ IF should_retry(count)
             THEN /\ attempt_count' = record_attempt(count)
                  /\ health_tx' = WatchSend(health_tx, HealthReceivers,
                                            Restarting(record_attempt(count)))
                  /\ backoff_until' = now + backoff_duration(record_attempt(count))
                  /\ spc' = "backoff"
             ELSE /\ attempt_count' = count
                  /\ health_tx' = WatchSend(health_tx, HealthReceivers, Failed)
                  /\ backoff_until' = None
                  /\ spc' = "failed"
          /\ deaths' = IF AsSecs(uptime) >= HEALTHY_DURATION_SECS THEN 1 ELSE deaths + 1
    /\ lst' = [lst EXCEPT ![watched] = "none"]
    /\ watched' = 0
    /\ start_time' = None
    /\ UNCHANGED <<clockVars, file, tx, inbox, debounce_timer,
                   consecutive_notify_errors, last_notify_error_time,
                   inactivity_deadline, sinceWrite, reloadsAfter, publishesAfter,
                   lastReload>>

\* lines 221-227 and 181-186: the 60s sleep of the select completes; the
\* JoinHandle is dropped (the task it belongs to keeps running) and the loop
\* body starts again.
SupHealthy ==
    /\ spc = "watching"
    /\ now >= start_time + SecsToMs(HEALTHY_DURATION_SECS)
    /\ \E l \in Loops :
          /\ Spawned(l)
          /\ lst' = [k \in Loops |->
                        IF k = l THEN "setup"
                        ELSE IF k = watched /\ lst[k] = "exited" THEN "none"
                        ELSE lst[k]]
          /\ watched' = l
    /\ attempt_count' = 0
    /\ health_tx' =
          LET h == IF attempt_count > 0
                   THEN WatchSend(health_tx, HealthReceivers, Healthy)
                   ELSE health_tx
          IN WatchSend(h, HealthReceivers, Healthy)
    /\ start_time' = now
    /\ deaths' = 0
    /\ UNCHANGED <<clockVars, file, tx, spc, backoff_until, inbox, debounce_timer,
                   consecutive_notify_errors, last_notify_error_time,
                   inactivity_deadline, sinceWrite, reloadsAfter, publishesAfter,
                   lastReload>>

\* The supervisor has a step it can take without time passing.
SupReady ==
    \/ spc = "start"
    \/ spc = "backoff" /\ now >= backoff_until
    \/ /\ spc = "watching"
       /\ \/ lst[watched] = "exited"
          \/ now >= start_time + SecsToMs(HEALTHY_DURATION_SECS)

----------------------------------------------------------------------------
\* Who holds a sender of each watch channel.  A channel is closed when no
\* sender is left.

\* state_tx: the ActivationManager's field and the clone moved into the timer
\* task, whose loop has no exit.
ActivationSenders ==
    (IF amAlive THEN {<<"ActivationManager">>} ELSE {}) \cup {<<"timer_task">>}

\* tx: the supervisor task (new_internal drops its own handle after cloning)
\* and one clone per watch loop task that has not ended.
ConfigSenders ==
    (IF spc \in {"failed", "aborted"} THEN {} ELSE {<<"supervisor">>})
    \cup {<<"watcher", l>> : l \in {k \in Loops : lst[k] \in {"setup", "running"}}}

\* health_tx: moved into the supervisor task.
HealthSenders == IF spc \in {"failed", "aborted"} THEN {} ELSE {<<"supervisor">>}

----------------------------------------------------------------------------
\* The overlay: OverlayRenderState, ReconnectionState and the task spawned by
\* OverlayManager::new_with_factory.  Handlers are operators on the record Ov
\* of the task's state; the outcome of every call on the factory or on a
\* backend is an input (TRUE: Ok).

MaxBackoffMs == 30000
BaseMillis == 1000
MaxExponent == 5
HealthCheckSecs == 2
ReconnectSecs == 1

Max(a, b) == IF a >= b THEN a ELSE b

\* The receiver of state_tx that new_with_factory moves into the task.
activation_rx == 1

NoBackend == <<"none">>
Backend(position) == <<"backend", position>>
NoColor == <<"none">>

\* OverlayConfig of a Config: configurations c and c + 2 differ in their
\* colors only, c and c + 1 in their position.
parse_position_with_fallback(c) == IF c % 2 = 0 THEN "top-right" ELSE "top-left"
Palette(c) == c \div 2
Color(kind, c) == <<kind, Palette(c)>>

Ov == [overlay |-> overlay, shown |-> shown, has_error |-> has_error,
       system_state |-> system_state, config |-> config,
       last_color |-> last_color, attempt_count |-> recon_attempt_count,
       last_attempt |-> last_attempt, ops |-> ops]

\* renderer::state_to_color through OverlayRenderState::current_color
current_color(o) ==
    IF o.has_error THEN Color("error", o.config)
    ELSE IF o.system_state = "Awake" THEN Color("awake", o.config)
    ELSE Color("asleep", o.config)

set_error(o, e) == [o EXCEPT !.has_error = e]
update_system_state(o, s) == [o EXCEPT !.system_state = s]
update_config(o, c) == [o EXCEPT !.config = c]
cached_position(o) == parse_position_with_fallback(o.config)

\* ReconnectionState
next_backoff_uncapped(n) == BaseMillis * Shl(1, Max(n - 1, 0))

\* (attempt_count as i32 is attempt_count itself below 2^31 failures)
next_backoff(n) ==
    Min(BaseMillis * Shl(1, Min(Max(n - 1, 0), MaxExponent)), MaxBackoffMs)

\* record_failure that notes the time and leaves the count
record_failure_time_only(o, t) == [o EXCEPT !.last_attempt = t]

record_failure(o, t) ==
    [o EXCEPT !.attempt_count = @ + 1, !.last_attempt = t]

reset(o, t) == [o EXCEPT !.attempt_count = 0, !.last_attempt = t]

recon_should_retry(o, t) == t - o.last_attempt >= next_backoff(o.attempt_count)

snapshot(t) ==
    [attempt_count |-> recon_attempt_count,
     elapsed_since_last_attempt |-> t - last_attempt,
     next_backoff_duration |-> next_backoff(recon_attempt_count),
     ready_to_retry |-> t - last_attempt >= next_backoff(recon_attempt_count)]

Did(o, op) == [o EXCEPT !.ops = Append(@, op)]

\* try_update_color_with_fallback(ctx, overlay, color, last_color, _,
\* record_failure_on_double_fail, reset_reconnection_on_success); r1 and r2
\* are the outcomes of the update_color(color) and update_color(error_color).
try_update_color_with_fallback(o, color, r1, r2, record, resets, t) ==
    IF o.overlay = NoBackend THEN o
    ELSE IF r1
    THEN LET a == Did(o, <<"update_color", color, TRUE>>)
             b == [a EXCEPT !.last_color = color, !.shown = color]
             c == IF resets THEN reset(b, t) ELSE b
         IN set_error(c, FALSE)
    ELSE LET a == set_error(Did(o, <<"update_color", color, FALSE>>), TRUE)
             error_color == current_color(a)
         IN IF r2
            THEN [Did(a, <<"update_color", error_color, TRUE>>)
                     EXCEPT !.shown = error_color]
            ELSE LET b == [Did(a, <<"update_color", error_color, FALSE>>)
                              EXCEPT !.overlay = NoBackend, !.shown = NoColor]
                 IN IF record THEN record_failure(b, t) ELSE b

\* connect_and_initialize_backend that leaves the error flag as it is when
\* the factory or connect fails
connect_and_initialize_backend_flag_kept(o, position, created, connected, r1, r2, t) ==
    LET a == Did(o, <<"factory", position, created>>)
    IN IF ~created
       THEN record_failure([a EXCEPT !.overlay = NoBackend, !.shown = NoColor], t)
       ELSE LET b == Did(a, <<"connect", position, connected>>)
            IN IF ~connected
               THEN record_failure([b EXCEPT !.overlay = NoBackend,
                                             !.shown = NoColor], t)
               ELSE LET c == [set_error(b, FALSE)
                                 EXCEPT !.overlay = Backend(position),
                                        !.shown = NoColor]
                    IN try_update_color_with_fallback(c, current_color(c), r1, r2,
                                                      TRUE, TRUE, t)

\* connect_and_initialize_backend; the Option it returns is what every caller
\* stores in its overlay.  created: the factory returned Ok; connected:
\* connect() returned Ok.
connect_and_initialize_backend(o, position, created, connected, r1, r2, t) ==
    LET a == Did(o, <<"factory", position, created>>)
    IN IF ~created
       THEN set_error(record_failure([a EXCEPT !.overlay = NoBackend,
                                                !.shown = NoColor], t), TRUE)
       ELSE LET b == Did(a, <<"connect", position, connected>>)
            IN IF ~connected
               THEN set_error(record_failure([b EXCEPT !.overlay = NoBackend,
                                                        !.shown = NoColor], t), TRUE)
               ELSE LET c == [set_error(b, FALSE)
                                 EXCEPT !.overlay = Backend(position),
                                        !.shown = NoColor]
                    IN try_update_color_with_fallback(c, current_color(c), r1, r2,
                                                      TRUE, TRUE, t)

\* a health check that records no reconnection failure when both pushes fail
handle_health_check_unrecorded(o, r1, r2, t) ==
    try_update_color_with_fallback(o, current_color(o), r1, r2, FALSE, TRUE, t)

handle_health_check(o, r1, r2, t) ==
    try_update_color_with_fallback(o, current_color(o), r1, r2, TRUE, TRUE, t)

\* handle_config_change when the backend is kept whatever the position is
handle_config_change_in_place(o, new_config, created, connected, r1, r2, t) ==
    LET a == update_config(o, new_config)
    IN try_update_color_with_fallback(a, current_color(a), r1, r2,
                                      FALSE, FALSE, t)

handle_config_change(o, new_config, created, connected, r1, r2, t) ==
    LET a == update_config(o, new_config)
        new_position == cached_position(a)
    IN IF a.overlay # NoBackend /\ a.overlay[2] # new_position
       THEN connect_and_initialize_backend(
                [Did(a, <<"drop", a.overlay[2]>>)
                    EXCEPT !.overlay = NoBackend, !.shown = NoColor],
                new_position, created, connected, r1, r2, t)
       ELSE try_update_color_with_fallback(a, current_color(a), r1, r2,
                                           FALSE, FALSE, t)

\* an activation change that pushes whatever the last pushed color is
handle_activation_change_always(o, new_state, r1, r2, t) ==
    LET a == update_system_state(o, new_state)
    IN try_update_color_with_fallback(a, current_color(a), r1, r2, TRUE, TRUE, t)

handle_activation_change(o, new_state, r1, r2, t) ==
    LET a == update_system_state(o, new_state)
        color == current_color(a)
    IN IF color # a.last_color
       THEN try_update_color_with_fallback(a, color, r1, r2, TRUE, TRUE, t)
       ELSE a

\* handle_reconnection_attempt that does not wait for the backoff
handle_reconnection_attempt_at_once(o, created, connected, r1, r2, t) ==
    IF o.overlay = NoBackend
    THEN LET a == connect_and_initialize_backend(o, cached_position(o), created,
                                                 connected, r1, r2, t)
         IN IF a.overlay # NoBackend THEN a ELSE set_error(a, TRUE)
    ELSE o

\* handle_reconnection_attempt that connects at the position of the default
\* configuration
handle_reconnection_attempt_default_position(o, created, connected, r1, r2, t) ==
    IF o.overlay = NoBackend /\ recon_should_retry(o, t)
    THEN LET a == connect_and_initialize_backend(
                      o, parse_position_with_fallback(DefaultConfig), created,
                      connected, r1, r2, t)
         IN IF a.overlay # NoBackend THEN a ELSE set_error(a, TRUE)
    ELSE o

handle_reconnection_attempt(o, created, connected, r1, r2, t) ==
    IF o.overlay = NoBackend /\ recon_should_retry(o, t)
    THEN LET a == connect_and_initialize_backend(o, cached_position(o), created,
                                                 connected, r1, r2, t)
         IN IF a.overlay # NoBackend THEN a ELSE set_error(a, TRUE)
    ELSE o

\* the config_health_rx branch of the select
handle_watcher_health(o, health, r1, r2, t) ==
    IF health = Healthy THEN o
    ELSE handle_health_check(set_error(o, TRUE), r1, r2, t)

----------------------------------------------------------------------------
\* The overlay task, one action per branch of its select

\* No overlay task runs: nothing holds a mutex of the OverlayManager.
LkParked ==
    /\ lpc = <<>>
    /\ held = <<>>
    /\ calling = "none"
    /\ task_overlay = FALSE
    /\ reader = "idle"
    /\ order = {}

\* No WaylandOverlay has been constructed.
WlParked ==
    /\ wl = "none"
    /\ surface_closed = FALSE
    /\ protocol_connected = FALSE
    /\ closed = FALSE
    /\ inject_connect_error = FALSE
    /\ inject_buffer_error = FALSE
    /\ connect_count = 0
    /\ disconnect_count = 0
    /\ update_buffer_count = 0
    /\ cycles = 0
    /\ result = "none"
    /\ calls = <<>>

\* No OverlayManager has been constructed.
OvManagerOff(f) ==
    /\ faults = f
    /\ amAlive = TRUE
    /\ cmAlive = TRUE
    /\ opc = "off"
    /\ overlay = NoBackend
    /\ shown = NoColor
    /\ has_error = FALSE
    /\ system_state = "Asleep"
    /\ config = DefaultConfig
    /\ last_color = NoColor
    /\ recon_attempt_count = 0
    /\ last_attempt = 0
    /\ health_check_interval = 0
    /\ reconnection_interval = 0
    /\ config_rx = 0
    /\ config_health_rx = 0
    /\ ops = <<>>
    /\ tick_due = 0

OvOff(f) == OvManagerOff(f) /\ LkParked /\ WlParked

OvParked == OvOff({})

\* The results a call can give.
Outcome(call) == IF call \in faults THEN BOOLEAN ELSE {TRUE}

OvIn == [Ov EXCEPT !.ops = <<>>]

OvSet(o) ==
    /\ overlay' = o.overlay
    /\ shown' = o.shown
    /\ has_error' = o.has_error
    /\ system_state' = o.system_state
    /\ config' = o.config
    /\ last_color' = o.last_color
    /\ recon_attempt_count' = o.attempt_count
    /\ last_attempt' = o.last_attempt
    /\ ops' = o.ops

\* lines 359-376 and 506-510: the render state is built from the current
\* configuration and activation state, the three receivers are made (the
\* clones of rx and health_rx have seen what the manager's receivers have
\* seen: the initial values) and the task is spawned.
new_with_factory ==
    /\ opc = "off"
    /\ amAlive /\ cmAlive
    /\ CallerIdle
    /\ Subscribe(activation_rx)
    /\ opc' = "init"
    /\ system_state' = state
    /\ config' = tx.value
    /\ has_error' = FALSE
    /\ last_attempt' = now
    /\ recon_attempt_count' = 0
    /\ config_rx' = 0
    /\ config_health_rx' = 0
    /\ UNCHANGED <<overlay, shown, last_color, health_check_interval,
                   reconnection_interval, faults, ops, tick_due, ownerVars, partVars, cfgVars>>

\* lines 377-399: the initial connection, then the two intervals are made
\* (their first tick is immediate).
OvStart ==
    /\ opc = "init"
    /\ \E created \in Outcome("factory"), connected \in Outcome("connect"),
             r1, r2 \in Outcome("update_color") :
          OvSet(connect_and_initialize_backend(OvIn, cached_position(Ov), created,
                                               connected, r1, r2, now))
    /\ health_check_interval' = now
    /\ reconnection_interval' = now
    /\ opc' = "loop"
    /\ UNCHANGED <<config_rx, config_health_rx, faults, tick_due, ownerVars, partVars, actVars, cfgVars>>

\* lines 403-410
OvHealthTick ==
    /\ opc = "loop"
    /\ now >= health_check_interval
    /\ \E r1, r2 \in Outcome("update_color") : OvSet(handle_health_check(OvIn, r1, r2, now))
    /\ health_check_interval' = Beyond(health_check_interval + SecsToMs(HealthCheckSecs))
    /\ UNCHANGED <<opc, reconnection_interval, config_rx, config_health_rx,
                   faults, tick_due, ownerVars, partVars, actVars, cfgVars>>

\* lines 412-428, a new value
OvConfigChanged ==
    /\ opc = "loop"
    /\ config_rx # tx.version
    /\ config_rx' = tx.version
    /\ \E created \in Outcome("factory"), connected \in Outcome("connect"),
             r1, r2 \in Outcome("update_color") :
          OvSet(handle_config_change(OvIn, tx.value, created, connected, r1, r2, now))
    /\ UNCHANGED <<opc, health_check_interval, reconnection_interval,
                   config_health_rx, faults, tick_due, ownerVars, partVars, actVars, cfgVars>>

\* lines 430-445, a new value
OvActivationChanged ==
    /\ opc = "loop"
    /\ SubChanged(activation_rx)
    /\ \E r1, r2 \in Outcome("update_color") :
          OvSet(handle_activation_change(OvIn, Borrow[1], r1, r2, now))
    /\ UNCHANGED <<opc, health_check_interval, reconnection_interval,
                   config_rx, config_health_rx, faults, tick_due, ownerVars, partVars, cfgVars>>

\* lines 447-486, a new value
OvHealthChanged ==
    /\ opc = "loop"
    /\ config_health_rx # health_tx.version
    /\ config_health_rx' = health_tx.version
    /\ \E r1, r2 \in Outcome("update_color") :
          OvSet(handle_watcher_health(OvIn, health_tx.value, r1, r2, now))
    /\ UNCHANGED <<opc, health_check_interval, reconnection_interval,
                   config_rx, faults, tick_due, ownerVars, partVars, actVars, cfgVars>>

\* lines 488-495
OvReconnectTick ==
    /\ opc = "loop"
    /\ now >= reconnection_interval
    /\ \E created \in Outcome("factory"), connected \in Outcome("connect"),
             r1, r2 \in Outcome("update_color") :
          OvSet(handle_reconnection_attempt(OvIn, created, connected, r1, r2, now))
    /\ reconnection_interval' = Beyond(reconnection_interval + SecsToMs(ReconnectSecs))
    /\ tick_due' = IF ops' # <<>>
                    THEN Beyond(now + next_backoff(recon_attempt_count'))
                    ELSE tick_due
    /\ UNCHANGED <<opc, health_check_interval, config_rx, config_health_rx,
                   faults, ownerVars, partVars, actVars, cfgVars>>

\* changed() of a receiver returns Err: every value has been seen and no
\* sender is left.
ConfigClosed == config_rx = tx.version /\ ConfigSenders = {}
ActivationClosed == ~subUnseen[activation_rx] /\ ActivationSenders = {}
HealthClosed == config_health_rx = health_tx.version /\ HealthSenders = {}

\* A task that returns without calling disconnect on its backend.
OvShutdownNoDisconnect ==
    /\ opc = "loop"
    /\ ConfigClosed \/ ActivationClosed \/ HealthClosed
    /\ opc' = "exited"
    /\ ops' = <<>>
    /\ Unsubscribe(activation_rx)
    /\ UNCHANGED <<overlay, shown, has_error, system_state, config, last_color,
                   recon_attempt_count, last_attempt, health_check_interval,
                   reconnection_interval, config_rx, config_health_rx, faults,
                   tick_due, ownerVars, partVars, cfgVars>>

\* lines 413-416, 431-434, 448-451 and 499-504: break, disconnect, return;
\* the task's receivers are dropped with it.
OvShutdown ==
    /\ opc = "loop"
    /\ ConfigClosed \/ ActivationClosed \/ HealthClosed
    /\ opc' = "exited"
    /\ ops' = IF overlay # NoBackend THEN <<<<"disconnect", overlay[2]>>>> ELSE <<>>
    /\ overlay' = NoBackend
    /\ shown' = NoColor
    /\ Unsubscribe(activation_rx)
    /\ UNCHANGED <<has_error, system_state, config, last_color, recon_attempt_count,
                   last_attempt, health_check_interval, reconnection_interval,
                   config_rx, config_health_rx, faults, tick_due, ownerVars, partVars, cfgVars>>

\* The overlay task has a step it can take without time passing.
OvReady ==
    \/ opc = "init"
    \/ /\ opc = "loop"
       /\ \/ now >= health_check_interval
          \/ now >= reconnection_interval
          \/ config_rx # tx.version
          \/ config_health_rx # health_tx.version
          \/ subUnseen[activation_rx]
          \/ ConfigClosed \/ ActivationClosed \/ HealthClosed

----------------------------------------------------------------------------
\* The configuration directory and the notify watchers

\* The watcher callback of every running loop queues the message
\* (event_tx.blocking_send).  A new message arrives when the queues are empty.
Deliver(m) == inbox' = [l \in Loops |-> IF lst[l] = "running" THEN m ELSE inbox[l]]

InboxesEmpty == \A l \in Loops : inbox[l] = NoMsg

Running == {l \in Loops : lst[l] = "running"}

\* config.toml is created or written with the given body.
WriteFile(body) ==
    /\ body # Missing
    /\ InboxesEmpty
    /\ body[1] = "toml" => tx.version + Cardinality(Running) <= MaxCfgVersion
    /\ file' = body
    /\ Deliver(Event(TRUE, "Modify"))
    /\ sinceWrite' = 0
    /\ reloadsAfter' = 0
    /\ publishesAfter' = 0
    /\ UNCHANGED <<clockVars, tx, supVars, lst, debounce_timer,
                   consecutive_notify_errors, last_notify_error_time,
                   inactivity_deadline, lastReload, deaths>>

\* config.toml is removed.
RemoveFile ==
    /\ file # Missing
    /\ InboxesEmpty
    /\ file' = Missing
    /\ Deliver(Event(TRUE, "Remove"))
    /\ UNCHANGED <<clockVars, tx, supVars, lst, debounce_timer,
                   consecutive_notify_errors, last_notify_error_time,
                   inactivity_deadline, cfgHistVars>>

\* another file of the directory is written.
WriteOther ==
    /\ InboxesEmpty
    /\ Running # {}
    /\ Deliver(Event(FALSE, "Modify"))
    /\ UNCHANGED <<clockVars, file, tx, supVars, lst, debounce_timer,
                   consecutive_notify_errors, last_notify_error_time,
                   inactivity_deadline, cfgHistVars>>

\* the notify watcher of one loop reports an error.
WatcherError(l) ==
    /\ lst[l] = "running"
    /\ inbox[l] = NoMsg
    /\ inbox' = [inbox EXCEPT ![l] = NotifyError]
    /\ UNCHANGED <<clockVars, file, tx, supVars, lst, debounce_timer,
                   consecutive_notify_errors, last_notify_error_time,
                   inactivity_deadline, cfgHistVars>>

\* The clock advances by one step: no task has a step left at this instant.
Advance ==
    /\ ~SupReady
    /\ ~OvReady
    /\ \A l \in Loops : ~LoopReady(l)
    /\ now + step <= horizon
    /\ now' = now + step
    /\ sinceWrite' = Min(sinceWrite + step, DebounceMs)
    /\ UNCHANGED <<step, horizon, file, tx, supVars, loopVars,
                   reloadsAfter, publishesAfter, lastReload, deaths>>

watch_config_file(l) ==
    LoopSetup(l, TRUE) \/ LoopSetup(l, FALSE) \/ LoopEvent(l) \/ LoopNotifyError(l)
        \/ LoopDebounce(l) \/ LoopInactivity(l)
spawn_supervisor == SupLaunch \/ SupExit \/ SupHealthy

\* The configuration manager is constructed and its supervisor has not run.
CfgParked == CfgInit(0, 0) /\ file = Missing

\* The activation manager is constructed with new(1) and nothing calls it.
ActParked == ActInit /\ timeout_secs = 1

\* The configuration manager while config.toml is written, removed and
\* rewritten and no watcher fails: the clock steps by the debounce duration.
CfgNext ==
    \/ (\E b \in FileBodies : WriteFile(b)) /\ UNCHANGED <<actVars, ownerVars, partVars, ovVars>>
    \/ RemoveFile /\ UNCHANGED <<actVars, ownerVars, partVars, ovVars>>
    \/ WriteOther /\ UNCHANGED <<actVars, ownerVars, partVars, ovVars>>
    \/ SupLaunch /\ UNCHANGED <<actVars, ownerVars, partVars, ovVars>>
    \/ SupHealthy /\ UNCHANGED <<actVars, ownerVars, partVars, ovVars>>
    \/ (\E l \in Loops : LoopSetup(l, TRUE)) /\ UNCHANGED <<actVars, ownerVars, partVars, ovVars>>
    \/ (\E l \in Loops : LoopEvent(l)) /\ UNCHANGED <<actVars, ownerVars, partVars, ovVars>>
    \/ (\E l \in Loops : LoopDebounce(l)) /\ UNCHANGED <<actVars, ownerVars, partVars, ovVars>>
    \/ Advance /\ UNCHANGED <<actVars, ownerVars, partVars, ovVars>>

CfgSpecInit == ActParked /\ CfgInit(DebounceMs, CfgSteps) /\ OvParked

CfgSpec == CfgSpecInit /\ [][CfgNext]_vars

\* The supervisor while watchers fail to start or report errors and
\* config.toml is left alone: the clock steps by two seconds.
SupNext ==
    \/ (\E l \in Loops : WatcherError(l)) /\ UNCHANGED <<actVars, ownerVars, partVars, ovVars>>
    \/ SupLaunch /\ UNCHANGED <<actVars, ownerVars, partVars, ovVars>>
    \/ SupExit /\ UNCHANGED <<actVars, ownerVars, partVars, ovVars>>
    \/ SupHealthy /\ UNCHANGED <<actVars, ownerVars, partVars, ovVars>>
    \/ (\E l \in Loops, ok \in BOOLEAN : LoopSetup(l, ok)) /\ UNCHANGED <<actVars, ownerVars, partVars, ovVars>>
    \/ (\E l \in Loops : LoopNotifyError(l)) /\ UNCHANGED <<actVars, ownerVars, partVars, ovVars>>
    \/ Advance /\ UNCHANGED <<actVars, ownerVars, partVars, ovVars>>

SupInit == ActParked /\ CfgInit(2 * base_ms, SupSteps) /\ file = Missing /\ OvParked

SupSpec == SupInit /\ [][SupNext]_vars

----------------------------------------------------------------------------
wake_via_wake_word == WakeLock \/ WakeTransition \/ WakeSend \/ WakeNotify
sleep_via_command == SleepLock \/ SleepTransition \/ SleepSend
spawn_timer_task == TimerPoll \/ TimerElapsed \/ TimerTransition \/ TimerSend
                       \/ TimerActivity \/ TimerTimeoutChanged

\* The activation state machine with its timer, one receiver coming and going,
\* and set_timeout called at any moment.
ActNext ==
    \/ WakeLock /\ UNCHANGED <<cfgVars, ownerVars, partVars, ovVars>>
    \/ WakeTransition /\ UNCHANGED <<cfgVars, ownerVars, partVars, ovVars>>
    \/ WakeSend /\ UNCHANGED <<cfgVars, ownerVars, partVars, ovVars>>
    \/ WakeNotify /\ UNCHANGED <<cfgVars, ownerVars, partVars, ovVars>>
    \/ SleepLock /\ UNCHANGED <<cfgVars, ownerVars, partVars, ovVars>>
    \/ SleepTransition /\ UNCHANGED <<cfgVars, ownerVars, partVars, ovVars>>
    \/ SleepSend /\ UNCHANGED <<cfgVars, ownerVars, partVars, ovVars>>
    \/ ActivityLock /\ UNCHANGED <<cfgVars, ownerVars, partVars, ovVars>>
    \/ ActivityNotify /\ UNCHANGED <<cfgVars, ownerVars, partVars, ovVars>>
    \/ SetTimeout /\ UNCHANGED <<cfgVars, ownerVars, partVars, ovVars>>
    \/ TimerPoll /\ UNCHANGED <<cfgVars, ownerVars, partVars, ovVars>>
    \/ TimerElapsed /\ UNCHANGED <<cfgVars, ownerVars, partVars, ovVars>>
    \/ TimerTransition /\ UNCHANGED <<cfgVars, ownerVars, partVars, ovVars>>
    \/ TimerSend /\ UNCHANGED <<cfgVars, ownerVars, partVars, ovVars>>
    \/ TimerActivity /\ UNCHANGED <<cfgVars, ownerVars, partVars, ovVars>>
    \/ TimerTimeoutChanged /\ UNCHANGED <<cfgVars, ownerVars, partVars, ovVars>>
    \/ (Subscribe(1) \/ Unsubscribe(1) \/ SubChanged(1)) /\ UNCHANGED <<cfgVars, ownerVars, partVars, ovVars>>
    \/ Tick /\ UNCHANGED <<cfgVars, ownerVars, partVars, ovVars>>

Init == ActInit /\ CfgParked /\ OvParked

Spec == Init /\ [][ActNext]_vars

\* The same machine created with new(1) and set_timeout never called (the
\* timeout_changed branch of the select is then never ready), with NumSubs
\* receivers.  A receiver waiting in changed() is woken by a send and
\* the runtime schedules it: weak fairness of SubChanged.
ChanInit == ActParked /\ CfgParked /\ OvParked

ChanNext ==
    \/ WakeLock /\ UNCHANGED <<cfgVars, ownerVars, partVars, ovVars>>
    \/ WakeTransition /\ UNCHANGED <<cfgVars, ownerVars, partVars, ovVars>>
    \/ WakeSend /\ UNCHANGED <<cfgVars, ownerVars, partVars, ovVars>>
    \/ WakeNotify /\ UNCHANGED <<cfgVars, ownerVars, partVars, ovVars>>
    \/ SleepLock /\ UNCHANGED <<cfgVars, ownerVars, partVars, ovVars>>
    \/ SleepTransition /\ UNCHANGED <<cfgVars, ownerVars, partVars, ovVars>>
    \/ SleepSend /\ UNCHANGED <<cfgVars, ownerVars, partVars, ovVars>>
    \/ ActivityLock /\ UNCHANGED <<cfgVars, ownerVars, partVars, ovVars>>
    \/ ActivityNotify /\ UNCHANGED <<cfgVars, ownerVars, partVars, ovVars>>
    \/ TimerPoll /\ UNCHANGED <<cfgVars, ownerVars, partVars, ovVars>>
    \/ TimerElapsed /\ UNCHANGED <<cfgVars, ownerVars, partVars, ovVars>>
    \/ TimerTransition /\ UNCHANGED <<cfgVars, ownerVars, partVars, ovVars>>
    \/ TimerSend /\ UNCHANGED <<cfgVars, ownerVars, partVars, ovVars>>
    \/ TimerActivity /\ UNCHANGED <<cfgVars, ownerVars, partVars, ovVars>>
    \/ (\E i \in Subs : Subscribe(i) \/ Unsubscribe(i) \/ SubChanged(i)) /\ UNCHANGED <<cfgVars, ownerVars, partVars, ovVars>>
    \/ Tick /\ UNCHANGED <<cfgVars, ownerVars, partVars, ovVars>>

ChanSpec ==
    ChanInit /\ [][ChanNext]_vars /\ \A i \in Subs : WF_vars(SubChanged(i) /\ UNCHANGED <<cfgVars, ownerVars, partVars, ovVars>>)

----------------------------------------------------------------------------
\* The overlay next to the activation calls and a supervisor whose watchers
\* may fail to start; every call on the factory and on a backend may fail.
\* One clock step is one second.  The timer task is left out: what it
\* publishes reaches the overlay as the Asleep that sleep_via_command
\* publishes does.

OvSteps == 4

AllFaults == {"factory", "connect", "update_color"}

OvSecond ==
    Advance /\ CallerIdle /\ opc # "off" /\ UNCHANGED <<actVars, ownerVars, partVars, ovVars>>

OvNext ==
    \/ new_with_factory
    \/ OvStart
    \/ OvHealthTick
    \/ OvActivationChanged
    \/ OvHealthChanged
    \/ OvReconnectTick
    \/ SupLaunch /\ UNCHANGED <<actVars, ownerVars, partVars, ovVars>>
    \/ SupExit /\ UNCHANGED <<actVars, ownerVars, partVars, ovVars>>
    \/ (\E l \in Loops, ok \in BOOLEAN : LoopSetup(l, ok))
          /\ UNCHANGED <<actVars, ownerVars, partVars, ovVars>>
    \/ wake_via_wake_word /\ opc # "off" /\ UNCHANGED <<cfgVars, ownerVars, partVars, ovVars>>
    \/ sleep_via_command /\ opc # "off" /\ UNCHANGED <<cfgVars, ownerVars, partVars, ovVars>>
    \/ OvSecond

OvInit ==
    /\ ActParked
    /\ CfgInit(SecsToMs(ReconnectSecs), OvSteps)
    /\ file = Missing
    /\ OvOff(AllFaults)

OvSpec == OvInit /\ [][OvNext]_vars

----------------------------------------------------------------------------
\* The overlay next to a supervisor that runs out of restarts; connections
\* may fail, the activation manager is not called.

OvFailSteps == 64

OvFailSecond == Advance /\ opc # "off" /\ UNCHANGED <<actVars, ownerVars, partVars, ovVars>>

OvFailNext ==
    \/ new_with_factory
    \/ OvStart
    \/ OvHealthTick
    \/ OvHealthChanged
    \/ OvReconnectTick
    \/ OvShutdown
    \/ SupLaunch /\ UNCHANGED <<actVars, ownerVars, partVars, ovVars>>
    \/ SupExit /\ UNCHANGED <<actVars, ownerVars, partVars, ovVars>>
    \/ SupHealthy /\ UNCHANGED <<actVars, ownerVars, partVars, ovVars>>
    \/ (\E l \in Loops, ok \in BOOLEAN : LoopSetup(l, ok))
          /\ UNCHANGED <<actVars, ownerVars, partVars, ovVars>>
    \/ OvFailSecond

OvFailInit ==
    /\ ActParked
    /\ CfgInit(SecsToMs(ReconnectSecs), OvFailSteps)
    /\ file = Missing
    /\ OvOff({"factory", "connect"})

OvFailSpec == OvFailInit /\ [][OvFailNext]_vars

\* The task is scheduled: a select with a ready branch completes.
OvFailLive == OvFailSpec /\ WF_vars(OvShutdown)

----------------------------------------------------------------------------
\* The overlay next to a configuration manager whose config.toml is rewritten;
\* every call on the factory and on a backend may fail.  One clock step is
\* the debounce duration.

OvCfgSteps == 4

OvCfgNext ==
    \/ new_with_factory
    \/ OvStart
    \/ OvHealthTick
    \/ OvConfigChanged
    \/ OvHealthChanged
    \/ OvReconnectTick
    \/ SupLaunch /\ UNCHANGED <<actVars, ownerVars, partVars, ovVars>>
    \/ (\E l \in Loops : LoopSetup(l, TRUE)) /\ UNCHANGED <<actVars, ownerVars, partVars, ovVars>>
    \/ (\E b \in FileBodies : WriteFile(b)) /\ opc # "off"
          /\ UNCHANGED <<actVars, ownerVars, partVars, ovVars>>
    \/ (\E l \in Loops : LoopEvent(l)) /\ UNCHANGED <<actVars, ownerVars, partVars, ovVars>>
    \/ (\E l \in Loops : LoopDebounce(l)) /\ UNCHANGED <<actVars, ownerVars, partVars, ovVars>>
    \/ Advance /\ opc # "off" /\ UNCHANGED <<actVars, ownerVars, partVars, ovVars>>

OvCfgInit ==
    /\ ActParked
    /\ CfgInit(DebounceMs, OvCfgSteps)
    /\ OvOff(AllFaults)

OvCfgSpec == OvCfgInit /\ [][OvCfgNext]_vars

----------------------------------------------------------------------------
\* The configuration manager over several minutes while other files of the
\* directory are written now and then and config.toml is left alone: the
\* clock steps by HEALTHY_DURATION_SECS.

----------------------------------------------------------------------------
\* The configuration manager while config.toml and other files of the
\* directory are written and the watcher reports errors, for longer than
\* the inactivity timeout: the clock steps by that timeout.

EvSteps == 2

EvNext ==
    \/ WriteFile(Toml(1)) /\ UNCHANGED <<actVars, ownerVars, partVars, ovVars>>
    \/ WriteOther /\ UNCHANGED <<actVars, ownerVars, partVars, ovVars>>
    \/ (\E l \in Loops : WatcherError(l)) /\ UNCHANGED <<actVars, ownerVars, partVars, ovVars>>
    \/ SupLaunch /\ UNCHANGED <<actVars, ownerVars, partVars, ovVars>>
    \/ SupExit /\ UNCHANGED <<actVars, ownerVars, partVars, ovVars>>
    \/ SupHealthy /\ UNCHANGED <<actVars, ownerVars, partVars, ovVars>>
    \/ (\E l \in Loops : LoopSetup(l, TRUE)) /\ UNCHANGED <<actVars, ownerVars, partVars, ovVars>>
    \/ (\E l \in Loops : LoopEvent(l)) /\ UNCHANGED <<actVars, ownerVars, partVars, ovVars>>
    \/ (\E l \in Loops : LoopNotifyError(l)) /\ UNCHANGED <<actVars, ownerVars, partVars, ovVars>>
    \/ (\E l \in Loops : LoopDebounce(l)) /\ UNCHANGED <<actVars, ownerVars, partVars, ovVars>>
    \/ (\E l \in Loops : LoopInactivity(l)) /\ UNCHANGED <<actVars, ownerVars, partVars, ovVars>>
    \/ Advance /\ UNCHANGED <<actVars, ownerVars, partVars, ovVars>>

EvInit ==
    /\ ActParked
    /\ CfgInit(SecsToMs(WatcherInactivitySecs), EvSteps)
    /\ file = Missing
    /\ OvParked

EvSpec == EvInit /\ [][EvNext]_vars

WdSteps == 5

WdNext ==
    \/ WriteOther /\ UNCHANGED <<actVars, ownerVars, partVars, ovVars>>
    \/ SupLaunch /\ UNCHANGED <<actVars, ownerVars, partVars, ovVars>>
    \/ SupHealthy /\ UNCHANGED <<actVars, ownerVars, partVars, ovVars>>
    \/ (\E l \in Loops : LoopSetup(l, TRUE)) /\ UNCHANGED <<actVars, ownerVars, partVars, ovVars>>
    \/ (\E l \in Loops : LoopEvent(l)) /\ UNCHANGED <<actVars, ownerVars, partVars, ovVars>>
    \/ (\E l \in Loops : LoopInactivity(l)) /\ UNCHANGED <<actVars, ownerVars, partVars, ovVars>>
    \/ Advance /\ UNCHANGED <<actVars, ownerVars, partVars, ovVars>>

WdInit ==
    /\ ActParked
    /\ CfgInit(SecsToMs(HEALTHY_DURATION_SECS), WdSteps)
    /\ file = Missing
    /\ OvParked

WdSpec == WdInit /\ [][WdNext]_vars

----------------------------------------------------------------------------
\* The overlay with a backend that may refuse to connect and to take a color,
\* next to a configuration manager whose config.toml, missing at first, is
\* written: long enough for the reconnection backoff to grow to two seconds.

OvRetrySteps == 8

\* the configurations that leave the overlay where the defaults put it
SamePosition ==
    {c \in Configs : parse_position_with_fallback(c)
                        = parse_position_with_fallback(DefaultConfig)}

OvRetryNext ==
    \/ new_with_factory
    \/ OvStart
    \/ OvHealthTick
    \/ OvConfigChanged
    \/ OvHealthChanged
    \/ OvReconnectTick
    \/ SupLaunch /\ UNCHANGED <<actVars, ownerVars, partVars, ovVars>>
    \/ (\E l \in Loops : LoopSetup(l, TRUE)) /\ UNCHANGED <<actVars, ownerVars, partVars, ovVars>>
    \/ (\E c \in SamePosition : WriteFile(Toml(c))) /\ opc = "loop"
          /\ UNCHANGED <<actVars, ownerVars, partVars, ovVars>>
    \/ (\E l \in Loops : LoopEvent(l)) /\ UNCHANGED <<actVars, ownerVars, partVars, ovVars>>
    \/ (\E l \in Loops : LoopDebounce(l)) /\ UNCHANGED <<actVars, ownerVars, partVars, ovVars>>
    \/ Advance /\ opc # "off" /\ UNCHANGED <<actVars, ownerVars, partVars, ovVars>>

OvRetryInit ==
    /\ ActParked
    /\ CfgInit(DebounceMs, OvRetrySteps)
    /\ file = Missing
    /\ OvOff({"connect", "update_color"})

OvRetrySpec == OvRetryInit /\ [][OvRetryNext]_vars

----------------------------------------------------------------------------
\* The owners go away.

\* The last Arc<ActivationManager> is dropped.  The struct has no Drop impl:
\* its fields are dropped, state_tx among them; dropping the JoinHandle
\* _timer_task detaches the timer task, which keeps its Arc<ManagerInner> and
\* its clone of state_tx.
DropActivationManager ==
    /\ amAlive
    /\ CallerIdle
    /\ amAlive' = FALSE
    /\ UNCHANGED <<cmAlive, partVars, actVars, cfgVars, ovVars>>

\* impl Drop for ConfigManager: supervisor_task.abort().  The supervisor's
\* future is dropped where it waits, and its tx, its health_tx and the
\* JoinHandle of the watcher with it; dropping that handle detaches the watch
\* loop.  The manager's rx and health_rx go with the struct.
DropConfigManager ==
    /\ cmAlive
    /\ cmAlive' = FALSE
    /\ spc' = IF spc = "failed" THEN "failed" ELSE "aborted"
    /\ lst' = [l \in Loops |-> IF lst[l] = "exited" THEN "none" ELSE lst[l]]
    /\ watched' = 0
    /\ start_time' = None
    /\ backoff_until' = None
    /\ UNCHANGED <<amAlive, partVars, actVars, ovVars, clockVars, file, tx, attempt_count,
                   health_tx, inbox, debounce_timer, consecutive_notify_errors,
                   last_notify_error_time, inactivity_deadline, cfgHistVars>>

\* The configuration manager while config.toml is written and the manager is
\* dropped at some moment; nobody else holds a receiver.

----------------------------------------------------------------------------
\* The overlay task at the grain of its two mutexes (overlay/manager.rs):
\* state, the Mutex<OverlayRenderState>, and recon, the
\* Mutex<ReconnectionState>.  Each function is a set of steps
\* <<label, kind, argument, next label>>: "lock" and "unlock" take and drop a
\* MutexGuard, "call" starts a call on the factory or on the backend, "ok"
\* and "err" are its two returns, "some" and "none" test the task's overlay,
\* "set_some" and "set_none" assign it, "recording" and "not_recording" test
\* the two flags of try_update_color_with_fallback (equal at every call
\* site), "enter" calls a function of this file and "return" leaves it,
\* "goto" is any other branch.

\* lines 71-110, with the state guard of the error path kept over the
\* fallback push
try_update_color_with_fallback_guard_kept ==
    { <<"u0", "none", "", "u_ret">>,
      <<"u0", "some", "", "u1">>,
      <<"u1", "call", "update_color", "u2">>,
      <<"u2", "ok", "", "uo0">>,
      <<"u2", "err", "", "ue0">>,
      <<"ue0", "lock", "state", "ue2">>,
      <<"ue2", "call", "update_color", "ue3">>,
      <<"ue3", "ok", "", "ue1">>,
      <<"ue1", "unlock", "state", "u_ret">>,
      <<"ue3", "err", "", "ue1b">>,
      <<"ue1b", "unlock", "state", "ue4">>,
      <<"ue4", "set_none", "", "ue5">>,
      <<"ue5", "recording", "", "ue6">>,
      <<"ue5", "not_recording", "", "u_ret">>,
      <<"ue6", "lock", "recon", "ue7">>,
      <<"ue7", "unlock", "recon", "u_ret">>,
      <<"uo0", "recording", "", "uo1">>,
      <<"uo0", "not_recording", "", "uo3">>,
      <<"uo1", "lock", "recon", "uo2">>,
      <<"uo2", "unlock", "recon", "uo3">>,
      <<"uo3", "lock", "state", "uo4">>,
      <<"uo4", "unlock", "state", "u_ret">>,
      <<"u_ret", "return", "", "">> }

\* lines 71-110
try_update_color_with_fallback_steps ==
    { <<"u0", "none", "", "u_ret">>,                  \* 82
      <<"u0", "some", "", "u1">>,
      <<"u1", "call", "update_color", "u2">>,         \* 83
      <<"u2", "ok", "", "uo0">>,
      <<"u2", "err", "", "ue0">>,
      <<"ue0", "lock", "state", "ue1">>,              \* 85
      <<"ue1", "unlock", "state", "ue2">>,            \* 88 drop(state)
      <<"ue2", "call", "update_color", "ue3">>,       \* 90
      <<"ue3", "ok", "", "u_ret">>,
      <<"ue3", "err", "", "ue4">>,
      <<"ue4", "set_none", "", "ue5">>,               \* 91
      <<"ue5", "recording", "", "ue6">>,              \* 92
      <<"ue5", "not_recording", "", "u_ret">>,
      <<"ue6", "lock", "recon", "ue7">>,              \* 93
      <<"ue7", "unlock", "recon", "u_ret">>,          \* 95
      <<"uo0", "recording", "", "uo1">>,              \* 100
      <<"uo0", "not_recording", "", "uo3">>,
      <<"uo1", "lock", "recon", "uo2">>,              \* 101
      <<"uo2", "unlock", "recon", "uo3">>,            \* 103
      <<"uo3", "lock", "state", "uo4">>,              \* 104
      <<"uo4", "unlock", "state", "u_ret">>,          \* 106
      <<"u_ret", "return", "", "">> }

\* lines 116-173
connect_and_initialize_backend_steps ==
    { <<"c0", "call", "factory", "c1">>,              \* 126
      <<"c1", "ok", "", "c2">>,
      <<"c1", "err", "", "cf0">>,
      <<"cf0", "lock", "recon", "cf1">>,              \* 166
      <<"cf1", "lock", "state", "cf2">>,              \* 168, recon still held
      <<"cf2", "unlock", "state", "cf3">>,            \* 171, in reverse order
      <<"cf3", "unlock", "recon", "cf4">>,
      <<"cf4", "set_none", "", "c_ret">>,
      <<"c2", "call", "connect", "c3">>,              \* 128
      <<"c3", "err", "", "ce0">>,
      <<"ce0", "lock", "recon", "ce1">>,              \* 130
      <<"ce1", "lock", "state", "ce2">>,              \* 132, recon still held
      <<"ce2", "unlock", "state", "ce3">>,            \* 135, in reverse order
      <<"ce3", "unlock", "recon", "ce4">>,
      <<"ce4", "set_none", "", "c_ret">>,
      <<"c3", "ok", "", "c4">>,
      <<"c4", "lock", "state", "c5">>,                \* 137
      <<"c5", "unlock", "state", "c6">>,              \* 139
      <<"c6", "lock", "state", "c7">>,                \* 142
      <<"c7", "unlock", "state", "c8">>,              \* 144
      <<"c8", "set_some", "", "c9">>,                 \* 146
      <<"c9", "enter", "u0", "c_ret">>,               \* 147-156
      <<"c_ret", "return", "", "">> }

\* lines 176-319: handle_health_check, handle_config_change,
\* handle_activation_change, handle_reconnection_attempt
handler_steps ==
    { <<"hc0", "lock", "state", "hc1">>,              \* 185
      <<"hc1", "unlock", "state", "hc2">>,            \* 187
      <<"hc2", "enter", "u0", "hc_ret">>,             \* 189-198
      <<"hc_ret", "goto", "", "t_loop">>,
      <<"cc0", "lock", "state", "cc1">>,              \* 210
      <<"cc1", "unlock", "state", "cc2">>,            \* 214
      <<"cc2", "some", "position changed", "cc3">>,   \* 216-217
      <<"cc2", "goto", "same position, or None", "cc5">>,
      <<"cc3", "set_none", "", "cc4">>,               \* 219
      <<"cc4", "enter", "c0", "cc_conn">>,            \* 221-227
      <<"cc_conn", "goto", "", "t_loop">>,
      <<"cc5", "lock", "state", "cc6">>,              \* 234
      <<"cc6", "unlock", "state", "cc7">>,            \* 236
      <<"cc7", "enter", "u0", "cc_ret">>,             \* 238-247
      <<"cc_ret", "goto", "", "t_loop">>,
      <<"ac0", "lock", "state", "ac1">>,              \* 259
      <<"ac1", "unlock", "state", "ac2">>,            \* 261
      <<"ac2", "lock", "state", "ac3">>,              \* 264
      <<"ac3", "unlock", "state", "ac4">>,            \* 266
      <<"ac4", "goto", "color = last_color", "t_loop">>,
      <<"ac4", "enter", "u0", "ac_ret">>,             \* 268-279
      <<"ac_ret", "goto", "", "t_loop">>,
      <<"ra0", "some", "", "t_loop">>,                \* 290
      <<"ra0", "none", "", "ra1">>,
      <<"ra1", "lock", "recon", "ra2">>,              \* 291
      <<"ra2", "unlock", "recon", "t_loop">>,         \* should_retry false: 318
      <<"ra2", "unlock", "recon", "ra3">>,            \* 293 drop(recon)
      <<"ra3", "lock", "state", "ra4">>,              \* 296
      <<"ra4", "unlock", "state", "ra5">>,            \* 298
      <<"ra5", "enter", "c0", "ra6">>,                \* 300-306
      <<"ra6", "some", "", "t_loop">>,
      <<"ra6", "none", "", "ra7">>,
      <<"ra7", "lock", "recon", "ra8">>,              \* 311
      <<"ra8", "unlock", "recon", "ra9">>,            \* 313
      <<"ra9", "lock", "state", "ra10">>,             \* 314
      <<"ra10", "unlock", "state", "t_loop">> }       \* 317

\* lines 376-511: the body of the spawned task
task_steps ==
    { <<"t_start", "lock", "state", "t_start1">>,     \* 386
      <<"t_start1", "unlock", "state", "t_start2">>,  \* 388
      <<"t_start2", "enter", "c0", "t_loop">>,        \* 390-396
      <<"t_loop", "goto", "health_check_interval", "hc0">>,
      <<"t_loop", "goto", "config_rx", "cc0">>,
      <<"t_loop", "goto", "activation_rx", "ac0">>,
      <<"t_loop", "goto", "config_health_rx", "wh0">>,
      <<"t_loop", "goto", "reconnection_interval", "ra0">>,
      <<"t_loop", "goto", "a channel is closed", "sd0">>,
      <<"wh0", "goto", "Healthy", "t_loop">>,         \* 459
      <<"wh0", "lock", "state", "wh1">>,              \* 464, 477
      <<"wh1", "unlock", "state", "hc0">>,            \* 466, 479
      <<"sd0", "none", "", "t_done">>,                \* 503
      <<"sd0", "some", "", "sd1">>,
      <<"sd1", "call", "disconnect", "sd2">>,         \* 504
      <<"sd2", "ok", "", "t_done">> }

Steps ==
    task_steps \cup handler_steps \cup connect_and_initialize_backend_steps
        \cup try_update_color_with_fallback_steps

\* The steps the running function can take next.
StepsFrom(kinds) == {e \in Steps : lpc # <<>> /\ e[1] = Head(lpc) /\ e[2] \in kinds}

Goto(label) == lpc' = <<label>> \o Tail(lpc)

HeldSet == {held[i] : i \in DOMAIN held}

\* lines 534-549: the mutex each accessor of OverlayManager locks
LockOf(m) == IF m = "reconnection_status" THEN "recon" ELSE "state"

Accessors == {"current_state", "has_error", "reconnection_status"}

\* record_failure_on_double_fail and reset_reconnection_on_success of the
\* running try_update_color_with_fallback: false only in the call of
\* handle_config_change at 238-247
Recording == Len(lpc) < 2 \/ lpc[2] # "cc_ret"

\* .lock().await returns a guard once no one holds the mutex
TaskLock ==
    /\ calling = "none"
    /\ \E e \in StepsFrom({"lock"}) :
          /\ e[3] \notin HeldSet
          /\ reader = "idle" \/ LockOf(reader) # e[3]
          /\ held' = Append(held, e[3])
          /\ order' = order \cup {<<h, e[3]>> : h \in HeldSet}
          /\ Goto(e[4])
    /\ UNCHANGED <<calling, task_overlay, reader, wlVars,
                   actVars, cfgVars, ownerVars, ovVars>>

\* a guard is dropped
TaskUnlock ==
    /\ calling = "none"
    /\ \E e \in StepsFrom({"unlock"}) :
          /\ e[3] \in HeldSet
          /\ held' = SelectSeq(held, LAMBDA h : h # e[3])
          /\ Goto(e[4])
    /\ UNCHANGED <<calling, task_overlay, reader, order, wlVars,
                   actVars, cfgVars, ownerVars, ovVars>>

\* the factory, or connect, update_color or disconnect of the backend, is
\* called
TaskCall ==
    /\ calling = "none"
    /\ \E e \in StepsFrom({"call"}) :
          /\ calling' = e[3]
          /\ Goto(e[4])
    /\ UNCHANGED <<held, task_overlay, reader, order, wlVars,
                   actVars, cfgVars, ownerVars, ovVars>>

\* the call returns
TaskCallReturns ==
    /\ calling # "none"
    /\ \E e \in StepsFrom({"ok", "err"}) :
          /\ calling' = "none"
          /\ Goto(e[4])
    /\ UNCHANGED <<held, task_overlay, reader, order, wlVars,
                   actVars, cfgVars, ownerVars, ovVars>>

\* a branch, an assignment to the task's overlay, a call of a function of
\* the file or a return from one
TaskControl ==
    /\ calling = "none"
    /\ \E e \in StepsFrom({"goto", "some", "none", "recording", "not_recording",
                           "set_some", "set_none", "enter", "return"}) :
          /\ e[2] = "some" => task_overlay
          /\ e[2] = "none" => ~task_overlay
          /\ e[2] = "recording" => Recording
          /\ e[2] = "not_recording" => ~Recording
          /\ task_overlay' = IF e[2] = "set_some" THEN TRUE
                             ELSE IF e[2] = "set_none" THEN FALSE
                             ELSE task_overlay
          /\ lpc' = IF e[2] = "enter" THEN <<e[3], e[4]>> \o Tail(lpc)
                    ELSE IF e[2] = "return" THEN Tail(lpc)
                    ELSE <<e[4]>> \o Tail(lpc)
    /\ UNCHANGED <<held, calling, reader, order, wlVars,
                   actVars, cfgVars, ownerVars, ovVars>>

\* lines 534-549: current_state(), has_error() or reconnection_status() is
\* called from another task and gets its guard
ReaderLock(m) ==
    /\ lpc # <<>>
    /\ reader = "idle"
    /\ LockOf(m) \notin HeldSet
    /\ reader' = m
    /\ UNCHANGED <<lpc, held, calling, task_overlay, order, wlVars,
                   actVars, cfgVars, ownerVars, ovVars>>

\* the accessor returns, dropping its guard
ReaderUnlock ==
    /\ reader # "idle"
    /\ reader' = "idle"
    /\ UNCHANGED <<lpc, held, calling, task_overlay, order, wlVars,
                   actVars, cfgVars, ownerVars, ovVars>>

LkNext ==
    \/ TaskLock
    \/ TaskUnlock
    \/ TaskCall
    \/ TaskCallReturns
    \/ TaskControl
    \/ \E m \in Accessors : ReaderLock(m)
    \/ ReaderUnlock

\* The task has been spawned and has not run.
LkInit ==
    /\ ActParked
    /\ CfgParked
    /\ OvManagerOff({})
    /\ WlParked
    /\ lpc = <<"t_start">>
    /\ held = <<>>
    /\ calling = "none"
    /\ task_overlay = FALSE
    /\ reader = "idle"
    /\ order = {}

LkSpec == LkInit /\ [][LkNext]_vars

----------------------------------------------------------------------------
\* WaylandOverlay over a WaylandProtocol (overlay/wayland/overlay.rs,
\* protocol.rs, mock.rs, production.rs).  The overlay and its protocol are
\* one record while a call runs; wl tells which protocol the overlay holds.

MaxCycles == 3
MaxUpdates == 6
MaxDisconnects == 4

\* the overlay and its protocol as the variables hold them, no call made yet
WlIn ==
    [surface_closed |-> surface_closed, connected |-> protocol_connected,
     closed |-> closed, connect_count |-> connect_count,
     disconnect_count |-> disconnect_count,
     update_buffer_count |-> update_buffer_count, calls |-> <<>>, err |-> FALSE]

WlSet(w) ==
    /\ surface_closed' = w.surface_closed
    /\ protocol_connected' = w.connected
    /\ closed' = w.closed
    /\ connect_count' = w.connect_count
    /\ disconnect_count' = w.disconnect_count
    /\ update_buffer_count' = w.update_buffer_count
    /\ calls' = w.calls
    /\ result' = IF w.err THEN "err" ELSE "ok"

\* a protocol that is left marked connected by a connect that fails
protocol_connect_half_open(w) ==
    IF inject_connect_error
    THEN [w EXCEPT !.connected = TRUE,
                   !.calls = Append(@, "connect_err"), !.err = TRUE]
    ELSE [w EXCEPT !.connected = TRUE, !.closed = FALSE,
                   !.connect_count = @ + 1,
                   !.calls = Append(@, "connect")]

\* mock.rs 113-131, production.rs 266-361: WaylandProtocol::connect
protocol_connect(w) ==
    IF inject_connect_error
    THEN [w EXCEPT !.calls = Append(@, "connect_err"), !.err = TRUE]
    ELSE [w EXCEPT !.connected = TRUE, !.closed = FALSE,
                   !.connect_count = @ + 1,
                   !.calls = Append(@, "connect")]

\* mock.rs 166-173, production.rs 420-429: WaylandProtocol::disconnect; the
\* production protocol drops its app_state, and its closed flag with it
protocol_disconnect(w) ==
    [w EXCEPT !.connected = FALSE,
              !.closed = IF wl = "production" THEN FALSE ELSE @,
              !.disconnect_count = @ + 1,
              !.calls = Append(@, "disconnect")]

\* mock.rs 141-164, production.rs 372-418: WaylandProtocol::update_buffer;
\* closes: the compositor closes the surface while the buffer is committed
protocol_update_buffer(w, closes) ==
    IF ~w.connected \/ inject_buffer_error
    THEN [w EXCEPT !.calls = Append(@, "update_buffer_err"), !.err = TRUE]
    ELSE [w EXCEPT !.update_buffer_count = @ + 1,
                   !.closed = @ \/ closes,
                   !.calls = Append(@, "update_buffer")]

\* overlay.rs 47-58
connect(w) ==
    LET p == protocol_connect(w)
    IN IF p.err THEN p ELSE [p EXCEPT !.surface_closed = FALSE]

\* overlay.rs 99-102
disconnect(w) == protocol_disconnect(w)

\* an update_color that reconnects without disconnecting first
update_color_without_disconnect(w, closes) ==
    LET a == IF w.surface_closed \/ w.closed
             THEN connect([w EXCEPT !.surface_closed = FALSE])
             ELSE w
        b == IF a.err \/ a.connected THEN a ELSE connect(a)
        c == IF b.err THEN b ELSE protocol_update_buffer(b, closes)
    IN IF c.err THEN c
       ELSE [c EXCEPT !.surface_closed = @ \/ c.closed]

\* overlay.rs 68-97
update_color(w, closes) ==
    LET a == IF w.surface_closed \/ w.closed
             THEN connect(disconnect([w EXCEPT !.surface_closed = FALSE]))
             ELSE w
        b == IF a.err \/ a.connected THEN a ELSE connect(a)
        c == IF b.err THEN b ELSE protocol_update_buffer(b, closes)
    IN IF c.err THEN c
       ELSE [c EXCEPT !.surface_closed = @ \/ c.closed]

\* overlay.rs 24-44: WaylandOverlay::new (production protocol) and
\* new_with_protocol (here with the mock)
WlNew(kind) ==
    /\ wl = "none"
    /\ wl' = kind
    /\ UNCHANGED <<surface_closed, protocol_connected, closed,
                   inject_connect_error, inject_buffer_error, connect_count,
                   disconnect_count, update_buffer_count, cycles, result, calls>>
    /\ UNCHANGED <<lockVars, actVars, cfgVars, ownerVars, ovVars>>

\* the first call of connect() on the overlay
WlConnect ==
    /\ wl # "none"
    /\ connect_count = 0
    /\ result = "none"
    /\ WlSet(connect(WlIn))
    /\ UNCHANGED <<wl, inject_connect_error, inject_buffer_error, cycles>>
    /\ UNCHANGED <<lockVars, actVars, cfgVars, ownerVars, ovVars>>

\* update_color() is called on the overlay
WlUpdateColor ==
    /\ wl # "none"
    /\ update_buffer_count < MaxUpdates
    /\ disconnect_count < MaxDisconnects
    /\ connect_count <= MaxDisconnects
    /\ \E closes \in BOOLEAN :
          /\ closes => cycles + 1 < MaxCycles
          /\ WlSet(update_color(WlIn, closes))
    /\ cycles' = IF surface_closed \/ closed THEN cycles + 1 ELSE cycles
    /\ UNCHANGED <<wl, inject_connect_error, inject_buffer_error>>
    /\ UNCHANGED <<lockVars, actVars, cfgVars, ownerVars, ovVars>>

\* mock.rs 19-21: the test closes the surface of the connected mock
simulate_surface_closed ==
    /\ wl = "mock"
    /\ protocol_connected
    /\ ~closed /\ ~surface_closed
    /\ cycles < MaxCycles
    /\ closed' = TRUE
    /\ UNCHANGED <<wl, surface_closed, protocol_connected, inject_connect_error,
                   inject_buffer_error, connect_count, disconnect_count,
                   update_buffer_count, cycles, result, calls>>
    /\ UNCHANGED <<lockVars, actVars, cfgVars, ownerVars, ovVars>>

\* mock.rs 29-36: connecting starts or stops failing (the compositor goes
\* away or comes back)
set_connect_error(on) ==
    /\ wl # "none"
    /\ inject_connect_error # on
    /\ inject_connect_error' = on
    /\ UNCHANGED <<wl, surface_closed, protocol_connected, closed,
                   inject_buffer_error, connect_count, disconnect_count,
                   update_buffer_count, cycles, result, calls>>
    /\ UNCHANGED <<lockVars, actVars, cfgVars, ownerVars, ovVars>>

\* mock.rs 39-46
set_buffer_error(on) ==
    /\ wl # "none"
    /\ inject_buffer_error # on
    /\ inject_buffer_error' = on
    /\ UNCHANGED <<wl, surface_closed, protocol_connected, closed,
                   inject_connect_error, connect_count, disconnect_count,
                   update_buffer_count, cycles, result, calls>>
    /\ UNCHANGED <<lockVars, actVars, cfgVars, ownerVars, ovVars>>

WlInit == ActParked /\ CfgParked /\ OvManagerOff({}) /\ LkParked /\ WlParked

\* The overlay with a compositor that closes the surface now and then and
\* never refuses a connection or a buffer.
WlNext ==
    \/ \E kind \in {"mock", "production"} : WlNew(kind)
    \/ WlConnect
    \/ WlUpdateColor
    \/ simulate_surface_closed

WlSpec == WlInit /\ [][WlNext]_vars

\* The same with a compositor that may refuse connections and buffers.
WlFailNext ==
    \/ \E kind \in {"mock", "production"} : WlNew(kind)
    \/ WlConnect
    \/ WlUpdateColor
    \/ simulate_surface_closed
    \/ \E on \in BOOLEAN : set_connect_error(on)
    \/ \E on \in BOOLEAN : set_buffer_error(on)

WlFailInit == WlInit

WlFailSpec == WlFailInit /\ [][WlFailNext]_vars

CfgDropSteps == 6

CfgDropNext ==
    \/ (\E b \in FileBodies : WriteFile(b)) /\ UNCHANGED <<actVars, ownerVars, partVars, ovVars>>
    \/ RemoveFile /\ UNCHANGED <<actVars, ownerVars, partVars, ovVars>>
    \/ WriteOther /\ UNCHANGED <<actVars, ownerVars, partVars, ovVars>>
    \/ SupLaunch /\ UNCHANGED <<actVars, ownerVars, partVars, ovVars>>
    \/ (\E l \in Loops : LoopSetup(l, TRUE)) /\ UNCHANGED <<actVars, ownerVars, partVars, ovVars>>
    \/ (\E l \in Loops : LoopEvent(l)) /\ UNCHANGED <<actVars, ownerVars, partVars, ovVars>>
    \/ (\E l \in Loops : LoopDebounce(l)) /\ UNCHANGED <<actVars, ownerVars, partVars, ovVars>>
    \/ Advance /\ UNCHANGED <<actVars, ownerVars, partVars, ovVars>>
    \/ DropConfigManager

CfgDropInit == ActParked /\ CfgInit(DebounceMs, CfgDropSteps) /\ OvParked

CfgDropSpec == CfgDropInit /\ [][CfgDropNext]_vars

\* The overlay next to an activation manager that is called, times out and is
\* dropped at some moment, and a configuration manager that stays healthy; the
\* backend never fails.  One clock step is one second.

DropSteps == 3

DropSecond == Advance /\ Tick /\ opc # "off" /\ UNCHANGED <<ownerVars, partVars, ovVars>>

DropNext ==
    \/ new_with_factory
    \/ OvStart
    \/ OvHealthTick
    \/ OvActivationChanged
    \/ OvHealthChanged
    \/ OvReconnectTick
    \/ SupLaunch /\ UNCHANGED <<actVars, ownerVars, partVars, ovVars>>
    \/ (\E l \in Loops : LoopSetup(l, TRUE)) /\ UNCHANGED <<actVars, ownerVars, partVars, ovVars>>
    \/ wake_via_wake_word /\ amAlive /\ opc # "off"
          /\ UNCHANGED <<cfgVars, ownerVars, partVars, ovVars>>
    \/ sleep_via_command /\ amAlive /\ opc # "off"
          /\ UNCHANGED <<cfgVars, ownerVars, partVars, ovVars>>
    \/ TimerPoll /\ UNCHANGED <<cfgVars, ownerVars, partVars, ovVars>>
    \/ TimerElapsed /\ UNCHANGED <<cfgVars, ownerVars, partVars, ovVars>>
    \/ TimerTransition /\ UNCHANGED <<cfgVars, ownerVars, partVars, ovVars>>
    \/ TimerSend /\ UNCHANGED <<cfgVars, ownerVars, partVars, ovVars>>
    \/ TimerActivity /\ UNCHANGED <<cfgVars, ownerVars, partVars, ovVars>>
    \/ DropActivationManager /\ opc # "off"
    \/ DropSecond

DropInit ==
    /\ ActParked
    /\ CfgInit(SecsToMs(ReconnectSecs), DropSteps)
    /\ file = Missing
    /\ OvOff({})

DropSpec == DropInit /\ [][DropNext]_vars

\* Every task is scheduled and time passes.
DropLive == DropSpec /\ WF_vars(DropNext)

----------------------------------------------------------------------------
\* The timer task makes the Awake -> Asleep transition with InactivityTimeout.
InactivityTransition == TimerElapsed /\ state = "Awake"

\* C1: wake() called while Awake and sleep() called while Asleep return at once
\* and leave the state, the transition reason and the channel (value and
\* version) as they were; nothing is handed to send.
C1_Idempotent ==
    [][ ((WakeLock /\ state = "Awake") \/ (SleepLock /\ state = "Asleep"))
        => /\ CallerIdle'
           /\ state' = state
           /\ transition' = transition
           /\ state_tx' = state_tx
           /\ lastSent' = lastSent
           /\ subUnseen' = subUnseen ]_vars

\* a wake() that found the machine Awake has returned, a receiver exists and
\* the channel holds what the first wake published
C1_Witness ==
    /\ cpc = "noop_wake"
    /\ state = "Awake"
    /\ subAlive # {}
    /\ state_tx = [value |-> <<"Awake", "WakeWord">>, version |-> 1]

\* C2: after a wake with no activity, sleep command or timeout change since,
\* the InactivityTimeout transition never comes before T has elapsed since the
\* wake (T > 0 the timeout in force, which is also the one the expired wait
\* was started with).
C2_NotBeforeTimeout ==
    [][ (InactivityTransition /\ quiet /\ timeout_secs > 0 /\ armedWith = timeout_secs)
        => sinceAct >= FromSecs(timeout_secs) ]_vars

\* C3: no InactivityTimeout transition occurs less than T after the most recent
\* wake or activity call (T > 0 the timeout the expired wait was started with),
\* whatever the interleaving of the call with the timer task.
C3_ActivityRestartsWait ==
    [][ (InactivityTransition /\ armedWith > 0)
        => sinceAct >= FromSecs(armedWith) ]_vars

\* C4: an activity call made while Asleep returns at once and changes neither
\* the state nor the channel, stores no activity or timeout notification and
\* does not touch the timer task.
C4_ActivityWhileAsleep ==
    [][ (ActivityLock /\ state = "Asleep")
        => /\ CallerIdle'
           /\ UNCHANGED <<state, transition, state_tx, lastSent, subUnseen,
                          activity, timeout_changed, tpc, timerSleep,
                          armedWith, armCause>> ]_vars

\* an activity call that found the machine Asleep has returned; the timer
\* task is polling and no notification is stored
C4_Witness ==
    /\ cpc = "noop_activity"
    /\ state = "Asleep"
    /\ tpc = "poll"
    /\ ~activity

\* The timer task waits on a sleep future created by the timeout_changed
\* branch, and no call or notification is in progress.
WaitingAfterTimeoutChange ==
    /\ tpc = "select"
    /\ armCause = "timeout_changed"
    /\ state = "Awake"
    /\ CallerIdle
    /\ ~activity
    /\ ~timeout_changed

C7_InvalidReloadKeepsConfig ==
    [][ \A l \in Loops :
          (LoopDebounce(l) /\ file[1] # "toml")
          => /\ tx' = tx
             /\ lastReload' \in {"read_error", "parse_error"}
             /\ lst[l] = "running" /\ lst' = lst
             /\ UNCHANGED supVars ]_vars

\* a configuration was published by a reload, then the file was overwritten
\* with text that does not parse and the reload of it has been made
C7_Witness ==
    /\ lastReload = "parse_error"
    /\ file = Garbage
    /\ tx.version = 1
    /\ tx.value \in Configs
    /\ \E l \in Loops : lst[l] = "running" /\ debounce_timer[l] = None
    /\ spc = "watching"
    /\ health_tx.value = Healthy

\* C8: after the last create/modify event of a burst (every event of which
\* came less than the debounce duration after the one before) one reload is
\* made, and at most 2 publishes.
C8_BurstOneReload == reloadsAfter <= 1 /\ publishesAfter <= 2

\* The backoff values the specification lists, in ms.
BackoffSequence == <<2000, 4000, 8000, 16000, 32000>>

\* C9: when the supervisor sees the n-th watch-loop death in a row (n = 1..5,
\* the loop having run for less than 60s) it sleeps 1000ms * 2^min(n,5):
\* 2000, 4000, 8000, 16000, 32000 ms.
C9_BackoffSequence ==
    [][ (SupExit /\ now - start_time < SecsToMs(HEALTHY_DURATION_SECS)
                 /\ deaths + 1 \in 1..5)
        => /\ spc' = "backoff"
           /\ backoff_until' - now = BackoffSequence[deaths + 1]
           /\ backoff_until' - now = 1000 * Shl(1, Min(deaths + 1, 5)) ]_vars

\* the fifth death in a row has just been handled: the supervisor sleeps 32s
C9_Witness ==
    /\ spc = "backoff"
    /\ deaths = 5
    /\ backoff_until = now + 32000
    /\ now >= 30000

\* C10: the published health is Healthy while no death has been seen,
\* Restarting{n} after the n-th death in a row for n = 1..5 and Failed after
\* the sixth; Restarting{attempt} is published with 1 <= attempt <= 5 only.
C10_HealthSequence ==
    /\ deaths <= 6
    /\ deaths = 0 => health_tx.value = Healthy
    /\ deaths \in 1..5 => health_tx.value = Restarting(deaths)
    /\ deaths = 6 => health_tx.value = Failed
    /\ health_tx.value[1] = "Restarting" => health_tx.value[2] \in 1..5

\* six deaths in a row: Healthy, Restarting{1..5} and Failed were published
C10_Witness ==
    /\ deaths = 6
    /\ spc = "failed"
    /\ health_tx = [value |-> Failed, version |-> 7]

\* C11: Failed is terminal.  Once the supervisor has published Failed it has
\* left its loop: it launches no watch loop, the published health and the
\* retry counter never change again, and the value current() returns changes
\* only to a configuration that a reload has just loaded from the file.
C11_FailedTerminal ==
    [][ spc = "failed"
        => /\ spc' = "failed"
           /\ health_tx.value = Failed
           /\ health_tx' = health_tx
           /\ attempt_count' = attempt_count
           /\ \A l \in Loops : lst'[l] = "setup" => lst[l] = "setup"
           /\ tx'.value # tx.value
                 => /\ file[1] = "toml"
                    /\ tx'.value = file[2] ]_vars

\* Failed was published after the sixth death at 62s, and time went on
C11_Witness ==
    /\ spc = "failed"
    /\ health_tx.value = Failed
    /\ attempt_count = MAX_RESTART_ATTEMPTS
    /\ now > 62000
    /\ \A l \in Loops : lst[l] = "none"

\* The supervisor sees the watch loop it waits on end after at least 60s.
LongUptimeExit ==
    /\ SupExit
    /\ AsSecs(now - start_time) >= HEALTHY_DURATION_SECS

\* C12 as stated: when a watch loop exits after an uptime of at least 60s the
\* retry counter is 0 and the published health is Healthy before the relaunch
\* (the step that handles the exit leaves them so for the launch that follows).
C12_HealthyBeforeRelaunch ==
    [][ LongUptimeExit
        => /\ attempt_count' = 0
           /\ health_tx'.value = Healthy ]_vars

\* C12 amended: the exit after a long uptime resets the counter and is then
\* counted like any other exit: the counter is 1, Restarting{1} is published,
\* the supervisor sleeps backoff(1) = 2000ms, and the launch that follows
\* publishes nothing, whatever the counter was before.
C12_LongUptimeCountedAnew ==
    /\ [][ LongUptimeExit
           => /\ attempt_count' = 1
              /\ health_tx'.value = Restarting(1)
              /\ spc' = "backoff"
              /\ backoff_until' = now + 2000 ]_vars
    /\ [][ (SupLaunch /\ spc = "backoff") => health_tx' = health_tx ]_vars

\* a loop launched at 2s with the counter at 1 ended at 62s: the third value
\* of the health channel is Restarting{1} again
C12_Witness ==
    /\ now = 62000
    /\ spc = "backoff"
    /\ attempt_count = 1
    /\ backoff_until = 64000
    /\ health_tx = [value |-> Restarting(1), version |-> 3]

\* The largest failure count the backoff formula is compared at.
MaxFailures == 12

\* the sequence the specification lists for 1..6 failures in a row
ReconnectSequence == <<1000, 2000, 4000, 8000, 16000, 30000>>

\* C13: after n failures in a row the reconnection backoff is
\* min(1000 * 2^max(n-1, 0), 30000) ms, that is 1000, 2000, 4000, 8000, 16000
\* and 30000 from the sixth on; what reconnection_status() reports agrees; and a
\* handler in which a connect succeeds leaves attempt_count at 0 and the
\* backoff at 1000ms.
C13_ReconnectBackoff ==
    /\ [](/\ \A n \in 0..MaxFailures :
                next_backoff(n) = Min(1000 * 2^Max(n - 1, 0), 30000)
          /\ \A n \in 1..MaxFailures :
                next_backoff(n) = ReconnectSequence[Min(n, 6)]
          /\ snapshot(now).next_backoff_duration
                = Min(1000 * 2^Max(recon_attempt_count - 1, 0), 30000))
    /\ [][ (\E i \in DOMAIN ops' : ops'[i][1] = "connect" /\ ops'[i][3])
           => /\ recon_attempt_count' = 0
              /\ next_backoff(recon_attempt_count') = 1000 ]_vars

\* seven connects in a row have failed, at 0, 1, 3, 7, 15, 31 and 61s
C13_Witness ==
    /\ recon_attempt_count = 7
    /\ last_attempt = 61000
    /\ snapshot(now).next_backoff_duration = 30000
    /\ has_error

\* The handler that has just run made a connection attempt in which the
\* factory, connect() and the first update_color all returned Ok.
AttemptSucceeded ==
    /\ Len(ops') >= 3
    /\ ops'[1][1] = "factory"
    /\ ops'[2][1] = "connect" /\ ops'[2][3]
    /\ ops'[3][1] = "update_color" /\ ops'[3][3]

\* C14: with a backend whose first connect fails, has_error is true for as
\* long as the task holds no backend; the reconnection branch makes its
\* attempt no earlier than the backoff after the failed one (1000ms after the
\* first failure); and the attempt that succeeds leaves has_error false,
\* attempt_count 0 and the next backoff 1000ms.
C14_ReconnectAfterBackoff ==
    /\ []((opc = "loop" /\ overlay = NoBackend) => has_error)
    /\ [][ (OvReconnectTick /\ ops' # <<>>)
           => /\ overlay = NoBackend
              /\ now - last_attempt >= next_backoff(recon_attempt_count)
              /\ recon_attempt_count >= 1 => now >= last_attempt + 1000 ]_vars
    /\ [][ (OvReconnectTick /\ AttemptSucceeded)
           => /\ ~has_error'
              /\ overlay' = Backend(cached_position(Ov))
              /\ snapshot(now)'.attempt_count = 0
              /\ snapshot(now)'.next_backoff_duration = 1000 ]_vars

\* the connect at 0s failed and the attempt of the tick at 1s has succeeded
C14_Witness ==
    /\ now = 1000
    /\ opc = "loop"
    /\ Len(ops) = 3
    /\ ops[1] = <<"factory", "top-right", TRUE>>
    /\ ops[2] = <<"connect", "top-right", TRUE>>
    /\ ops[3][3]
    /\ overlay = Backend("top-right")
    /\ ~has_error
    /\ recon_attempt_count = 0
    /\ last_attempt = 1000

\* The overlay task has handled the health value now published and it is
\* Restarting or Failed.
WatcherUnhealthySeen ==
    /\ opc = "loop"
    /\ config_health_rx = health_tx.version
    /\ health_tx.value[1] \in {"Restarting", "Failed"}

\* C15: while the watcher health the overlay has seen is Restarting or Failed
\* and a backend is connected, the color the backend shows is the error color
\* and has_error is true.
C15_ErrorColorWhileUnhealthy ==
    (WatcherUnhealthySeen /\ overlay # NoBackend)
        => /\ has_error
           /\ shown = Color("error", config)

\* C16: when the configuration channel or the activation channel is closed
\* the reconciliation loop stops.  No time passes while the loop still runs on
\* a closed channel; the task ends; on ending it calls disconnect on the
\* backend it holds, and nothing else; once ended it makes no call on a
\* factory or a backend and changes nothing.
C16_ClosedChannelStopsLoop ==
    /\ [][ (opc = "loop" /\ (ConfigClosed \/ ActivationClosed)) => now' = now ]_vars
    /\ (opc = "loop" /\ (ConfigClosed \/ ActivationClosed)) ~> opc = "exited"
    /\ [][ (opc = "loop" /\ opc' = "exited")
           => /\ ConfigClosed \/ ActivationClosed \/ HealthClosed
              /\ overlay' = NoBackend
              /\ ops' = IF overlay = NoBackend THEN <<>>
                        ELSE << <<"disconnect", overlay[2]>> >> ]_vars
    /\ [][ opc = "exited" => UNCHANGED ovVars ]_vars

\* the supervisor gave up at 62s with no watch loop left, which closed the
\* configuration channel; the task has disconnected its backend and ended
C16_Witness ==
    /\ opc = "exited"
    /\ spc = "failed"
    /\ ConfigSenders = {}
    /\ config_rx = tx.version
    /\ ops = << <<"disconnect", "top-right">> >>
    /\ overlay = NoBackend
    /\ now > 62000

C18_TimerTornDownOnDrop ==
    [][ ~amAlive
        => /\ ~(TimerPoll \/ TimerElapsed \/ TimerTransition \/ TimerSend
                  \/ TimerActivity \/ TimerTimeoutChanged)
           /\ state' = state
           /\ transition' = transition
           /\ state_tx' = state_tx ]_vars

\* C19: dropping the ConfigManager ends its background work at once.  After
\* the drop the supervisor is gone, no watch loop is being set up or running,
\* no sender of the configuration channel is left, and no watch loop handles
\* an event or reloads the file.
C19_DropStopsBackgroundWork ==
    /\ [](~cmAlive => /\ spc \in {"aborted", "failed"}
                      /\ \A l \in Loops : lst[l] \notin {"setup", "running"}
                      /\ ConfigSenders = {})
    /\ [][ ~cmAlive => \A l \in Loops : ~LoopEvent(l) /\ ~LoopDebounce(l) ]_vars

\* The color handle_config_change resolves: that of the new configuration for
\* the state and the error flag the render state holds.
ResolvedColor == current_color(update_config(Ov, tx.value))

\* C20: on a configuration change with a backend connected, if the position
\* of the new configuration differs from the backend's, the backend is dropped
\* and a backend is created at the new position and connected, and it is the
\* one held when these calls and the color push succeed; if the position is
\* the same, no backend is dropped, created or connected, the resolved color
\* is pushed, and the backend is kept unless both pushes fail.
C20_PositionChangeReconnects ==
    [][ (OvConfigChanged /\ overlay # NoBackend)
        => LET new_position == parse_position_with_fallback(tx.value)
           IN IF overlay[2] # new_position
              THEN /\ Len(ops') >= 2
                   /\ ops'[1] = <<"drop", overlay[2]>>
                   /\ ops'[2][1] = "factory" /\ ops'[2][2] = new_position
                   /\ \A i \in 3..Len(ops') : ops'[i][1] \in {"connect", "update_color"}
                   /\ overlay' \in {NoBackend, Backend(new_position)}
                   /\ (ops'[2][3] /\ Len(ops') = 4 /\ ops'[3][3] /\ ops'[4][3])
                         => /\ overlay' = Backend(new_position)
                            /\ ops'[3] = <<"connect", new_position, TRUE>>
                            /\ shown' = current_color(Ov')
              ELSE /\ Len(ops') \in 1..2
                   /\ \A i \in 1..Len(ops') : ops'[i][1] = "update_color"
                   /\ ops'[1][2] = ResolvedColor
                   /\ ops'[1][3] => /\ Len(ops') = 1
                                    /\ shown' = ResolvedColor
                                    /\ last_color' = ResolvedColor
                   /\ \/ overlay' = overlay
                      \/ Len(ops') = 2 /\ ~ops'[1][3] /\ ~ops'[2][3] ]_vars

\* the configuration went from top-right to top-left: the backend at top-right
\* was dropped and a fresh one at top-left is connected and shows the color
C20_Witness ==
    /\ Len(ops) = 4
    /\ ops[1] = <<"drop", "top-right">>
    /\ ops[2] = <<"factory", "top-left", TRUE>>
    /\ ops[3] = <<"connect", "top-left", TRUE>>
    /\ ops[4][3]
    /\ overlay = Backend("top-left")
    /\ config = 1
    /\ shown = Color("asleep", 1)

\* C21: the inactivity watchdog of a watch loop is armed only by the loop
\* receiving a message or finishing a reload, never before; and when the
\* watchdog ends a loop, that loop is the one whose JoinHandle the supervisor
\* is awaiting, so that the supervisor sees the exit and publishes Restarting.
C21_WatchdogExitRestarts ==
    /\ [][\A l \in Loops :
            (inactivity_deadline[l] = None /\ inactivity_deadline'[l] # None)
               => (LoopEvent(l) \/ LoopNotifyError(l) \/ LoopDebounce(l))]_vars
    /\ [][\A l \in Loops :
            LoopInactivity(l) => (spc = "watching" /\ watched = l /\ lst'[l] = "exited")]_vars

\* C22: a notification error makes the consecutive-error counter 1 when more
\* than ErrorWindowSecs have passed since the previous error and one more
\* than it was otherwise; the watch loop ends on the error that makes the
\* counter max_consecutive_errors, and goes on running, with the new counter
\* and the time of the error kept, on every other error.
C22_FifthErrorFatal ==
    [][\A l \in Loops :
          LoopNotifyError(l) =>
             LET last == last_notify_error_time[l]
                 counter == IF last # None /\ now - last > SecsToMs(ErrorWindowSecs)
                            THEN 1
                            ELSE consecutive_notify_errors[l] + 1
             IN IF counter = max_consecutive_errors
                THEN lst'[l] \in {"exited", "none"}
                ELSE /\ counter < max_consecutive_errors
                     /\ lst'[l] = "running"
                     /\ consecutive_notify_errors'[l] = counter
                     /\ last_notify_error_time'[l] = now]_vars

\* a watch loop that started well has ended on its fifth error in a row, and
\* the supervisor has yet to see it
C22_Witness ==
    /\ spc = "watching"
    /\ watched # 0
    /\ lst[watched] = "exited"
    /\ now > start_time + SecsToMs(ErrorWindowSecs)

\* C23: when the debounce elapses on a config.toml that parses and no
\* receiver of the configuration channel is left, the send fails, nothing is
\* published and the watch loop ends; on every other reload the loop goes on
\* running.
C23_NoSubscribersFatal ==
    [][\A l \in Loops :
          LoopDebounce(l) =>
             IF file[1] = "toml" /\ ConfigReceivers = {}
             THEN /\ lastReload' = "send_error"
                  /\ tx' = tx
                  /\ lst'[l] \in {"exited", "none"}
             ELSE /\ lastReload' # "send_error"
                  /\ lst'[l] = "running"]_vars

\* the ConfigManager is gone, nothing else subscribed, and a watch loop that
\* outlived it has reloaded a valid file and failed to publish it
C23_Witness ==
    /\ ~cmAlive
    /\ ConfigReceivers = {}
    /\ file[1] = "toml"
    /\ lastReload = "send_error"
    /\ \A l \in Loops : lst[l] = "none"

\* The watch loop tasks that exist: spawned and not yet ended.
WatchLoopTasks == {l \in Loops : lst[l] \in {"setup", "running"}}

\* C24: at any time at most one watch loop task exists for the
\* ConfigManager, and the supervisor starts one only when none exists.
C24_OneWatchLoop ==
    /\ [](Cardinality(WatchLoopTasks) <= 1)
    /\ [][(SupLaunch \/ SupHealthy) => WatchLoopTasks = {}]_vars

\* C25: a watch loop task that ends, whatever the reason and the uptime, is
\* the one whose JoinHandle the supervisor is awaiting: its exit is kept for
\* the supervisor, whose next step on it publishes Restarting or Failed.
C25_EveryExitObserved ==
    /\ [][\A l \in Loops :
            (l \in WatchLoopTasks /\ l \notin WatchLoopTasks')
               => (spc = "watching" /\ watched = l /\ lst'[l] = "exited")]_vars
    /\ [][\A l \in Loops :
            (lst[l] = "exited" /\ lst'[l] # "exited")
               => (SupExit /\ health_tx'.value[1] \in {"Restarting", "Failed"})]_vars

\* C26: once the supervisor has published Failed the overlay task goes on:
\* on seeing Failed it pushes the error color to a connected backend, and
\* from then on it neither leaves its loop nor disconnects its backend.
C26_FailedKeepsOverlayRunning ==
    /\ [][(OvHealthChanged /\ health_tx.value = Failed /\ overlay # NoBackend)
             => (Len(ops') >= 1 /\ ops'[1] = <<"update_color", Color("error", config), TRUE>>)]_vars
    /\ [][spc = "failed" => ~OvShutdown]_vars
    /\ [](spc = "failed" => opc # "exited")

\* C27: a health change to Restarting or Failed sets the error flag and
\* pushes at once (the error color, to a connected backend), Healthy changes
\* nothing; and the error flag is cleared by a successful color push only:
\* a handler that leaves it cleared has made one, and a successful connect by
\* itself leaves it set, so that the color resolved for the first push on the
\* new backend is still the error color.
C27_ErrorFlagClearedByPushOnly ==
    /\ [][OvHealthChanged =>
            IF health_tx.value = Healthy
            THEN UNCHANGED <<overlay, shown, has_error, last_color,
                             recon_attempt_count, last_attempt>> /\ ops' = <<>>
            ELSE IF overlay = NoBackend
            THEN has_error' /\ ops' = <<>>
            ELSE Len(ops') >= 1 /\ ops'[1][1] = "update_color"
                                /\ ops'[1][2] = Color("error", config)]_vars
    /\ [][(has_error /\ ~has_error')
            => \E i \in 1..Len(ops') : ops'[i][1] = "update_color" /\ ops'[i][3]]_vars
    /\ [][\A i \in 1..Len(ops') :
            (has_error /\ ops'[i][1] = "connect" /\ ops'[i][3])
               => /\ Len(ops') > i
                  /\ ops'[i + 1][1] = "update_color"
                  /\ ops'[i + 1][2] = Color("error", config')]_vars

\* C28: a health-check tick with a backend connected pushes the current
\* resolved color.  If the push fails the error flag is set and the error
\* color is pushed once, at once; if that fails too the backend is dropped
\* and one reconnection failure is recorded (attempt_count one more,
\* last_attempt now); if the fallback push succeeds the backend is kept, the
\* error flag stays set and no failure is recorded.
C28_HealthCheckFallback ==
    [][(OvHealthTick /\ overlay # NoBackend) =>
          /\ Len(ops') \in 1..2
          /\ ops'[1][1] = "update_color" /\ ops'[1][2] = current_color(Ov)
          /\ IF ops'[1][3]
             THEN /\ Len(ops') = 1
                  /\ overlay' = overlay
                  /\ shown' = current_color(Ov)
             ELSE /\ Len(ops') = 2
                  /\ ops'[2][1] = "update_color"
                  /\ ops'[2][2] = Color("error", config)
                  /\ has_error'
                  /\ IF ops'[2][3]
                     THEN /\ overlay' = overlay
                          /\ shown' = Color("error", config)
                          /\ recon_attempt_count' = recon_attempt_count
                          /\ last_attempt' = last_attempt
                     ELSE /\ overlay' = NoBackend
                          /\ recon_attempt_count' = recon_attempt_count + 1
                          /\ last_attempt' = now]_vars

\* a health check, not the first one, has just failed both pushes on a
\* backend that showed the asleep color: the backend is gone and the failure
\* is the first on record
C28_Witness ==
    /\ opc = "loop"
    /\ now > 0
    /\ health_check_interval > now
    /\ config_health_rx = health_tx.version
    /\ ~subUnseen[activation_rx]
    /\ ops = << <<"update_color", Color("asleep", config), FALSE>>,
                <<"update_color", Color("error", config), FALSE>> >>
    /\ overlay = NoBackend
    /\ has_error
    /\ recon_attempt_count = 1
    /\ last_attempt = now

TickAttempt == OvReconnectTick /\ ops' # <<>>

\* C30: the reconnection tick leaves a connected backend alone; it attempts
\* a connection only when none is held and the time since last_attempt is at
\* least the current backoff; and an attempt of the tick comes no earlier
\* after the tick's previous attempt than the backoff that was in force after
\* that one.
C30_TickHonoursBackoff ==
    /\ [][(OvReconnectTick /\ overlay # NoBackend)
             => (ops' = <<>> /\ UNCHANGED <<overlay, shown, has_error, last_color,
                                            recon_attempt_count, last_attempt>>)]_vars
    /\ [][TickAttempt
             => (overlay = NoBackend /\ snapshot(now).ready_to_retry)]_vars
    /\ [][TickAttempt => now >= tick_due]_vars

\* C31: while the timer task waits in its select, an activity signal or a
\* timeout change it handles with the state Awake replaces the sleep by a
\* full one of the timeout stored at that moment; when the sleep elapses with
\* the state Awake the state becomes Asleep, the sleep future is dropped, and
\* (Asleep, InactivityTimeout) is what the task then stores and publishes;
\* the task creates a sleep future again only from its poll loop, on finding
\* the state Awake, which only a wake makes it.
C31_TimerRestartAndExpiry ==
    /\ [][((TimerActivity \/ TimerTimeoutChanged) /\ state = "Awake")
            => /\ tpc' = "select"
               /\ timerSleep' = FromSecs(timeout_secs)
               /\ armedWith' = timeout_secs]_vars
    /\ [][InactivityTransition
            => /\ state' = "Asleep"
               /\ tpc' = "timeout_transition"
               /\ armedWith' = 0 /\ armCause' = "none"]_vars
    /\ [][TimerTransition => transition' = "InactivityTimeout"]_vars
    /\ [][TimerSend => (lastSent' = <<"Asleep", "InactivityTimeout">> /\ tpc' = "poll")]_vars
    /\ [](tpc \in {"timeout_transition", "timeout_send", "poll"} => armedWith = 0)
    /\ [][(tpc # "select" /\ tpc' = "select") => (TimerPoll /\ state = "Awake")]_vars
    /\ [][(state = "Asleep" /\ state' = "Awake") => WakeLock]_vars

\* the timeout has elapsed on an awake machine and been published; the task
\* is back in its poll loop with no sleep future, the machine still asleep
C31_Witness ==
    /\ tpc = "poll"
    /\ armedWith = 0
    /\ state = "Asleep"
    /\ transition = "InactivityTimeout"
    /\ lastSent = <<"Asleep", "InactivityTimeout">>
    /\ state_tx.value = lastSent
    /\ CallerIdle

\* C32: an event whose paths do not name config.toml leaves the debounce
\* deadline and the error tracker of the loop that receives it as they were;
\* the consecutive-error counter of a loop that keeps running returns to 0
\* only when that loop receives an event on config.toml.
C32_OtherFilesIgnored ==
    /\ [][\A l \in Loops :
            (LoopEvent(l) /\ ~inbox[l][2])
                => /\ debounce_timer'[l] = debounce_timer[l]
                   /\ consecutive_notify_errors'[l] = consecutive_notify_errors[l]
                   /\ last_notify_error_time'[l] = last_notify_error_time[l]]_vars
    /\ [][\A l \in Loops :
            (/\ consecutive_notify_errors[l] > 0
             /\ consecutive_notify_errors'[l] = 0
             /\ lst'[l] = "running")
                => (LoopEvent(l) /\ inbox[l][2])]_vars

\* a loop has counted two notify errors and, one clock step after the second,
\* received an event on another file: the counter is still 2
C32_Witness ==
    \E l \in Loops :
        /\ lst[l] = "running"
        /\ inbox[l] = NoMsg
        /\ consecutive_notify_errors[l] = 2
        /\ last_notify_error_time[l] # None
        /\ now = last_notify_error_time[l] + step
        /\ inactivity_deadline[l] = now + SecsToMs(WatcherInactivitySecs)
        /\ inactivity_deadline[l] <= horizon

\* C33: while a call on the factory or on the backend is in progress the task
\* holds no guard, so each accessor of OverlayManager can get its mutex; and
\* the task never locks recon while holding state after having locked state
\* while holding recon, or the other way round.
C33_NoLockAcrossBackendCall ==
    /\ calling # "none" => held = <<>>
    /\ calling # "none" => \A m \in Accessors : LockOf(m) \notin HeldSet
    /\ ~(<<"state", "recon">> \in order /\ <<"recon", "state">> \in order)

\* has_error() holds the state mutex while update_color is in progress, in a
\* run where the task has held both mutexes at once
C33_Witness ==
    /\ calling = "update_color"
    /\ reader = "has_error"
    /\ order # {}

\* C34: with a compositor that refuses nothing, an update_color() called
\* with the surface closed calls disconnect, connect and update_buffer on
\* the protocol, once each and in that order, and returns Ok; one called on a
\* connected overlay whose surface is not closed calls update_buffer only;
\* and between calls, once connected, the protocol has seen one successful
\* connect more than update_color calls begun with the surface closed, as
\* many disconnects as such calls, and is connected.
C34_ReconnectOncePerClosure ==
    /\ [][(WlUpdateColor /\ (surface_closed \/ closed))
            => /\ calls' = <<"disconnect", "connect", "update_buffer">>
               /\ disconnect_count' = disconnect_count + 1
               /\ connect_count' = connect_count + 1
               /\ update_buffer_count' = update_buffer_count + 1
               /\ result' = "ok"
               /\ protocol_connected']_vars
    /\ [][(WlUpdateColor /\ ~surface_closed /\ ~closed /\ protocol_connected)
            => /\ calls' = <<"update_buffer">>
               /\ disconnect_count' = disconnect_count
               /\ connect_count' = connect_count
               /\ result' = "ok"]_vars
    /\ [](connect_count >= 1
            => /\ connect_count = cycles + 1
               /\ disconnect_count = cycles
               /\ protocol_connected)

\* three closures, each followed by an update, then one more update: four
\* connects, three disconnects, the last update wrote the buffer only
C34_Witness ==
    /\ cycles = MaxCycles
    /\ connect_count = MaxCycles + 1
    /\ disconnect_count = MaxCycles
    /\ protocol_connected
    /\ ~closed /\ ~surface_closed
    /\ calls = <<"update_buffer">>
    /\ result = "ok"

\* C35: an update_color() called with the surface closed while connect()
\* fails returns Err, writes no buffer and leaves the protocol not
\* connected; an update_color() called on a not connected overlay while
\* nothing fails connects, writes the buffer and returns Ok; after every
\* update_color() that returns Ok the overlay is connected and its closed
\* flag is that of the protocol, and called in that state with the surface
\* not closed update_color() does not call connect.
C35_FailedReconnectRecovers ==
    /\ [][(WlUpdateColor /\ (surface_closed \/ closed) /\ inject_connect_error)
            => /\ result' = "err"
               /\ ~protocol_connected'
               /\ update_buffer_count' = update_buffer_count]_vars
    /\ [][(WlUpdateColor /\ ~protocol_connected
             /\ ~inject_connect_error /\ ~inject_buffer_error)
            => /\ result' = "ok"
               /\ protocol_connected'
               /\ connect_count' = connect_count + 1
               /\ update_buffer_count' = update_buffer_count + 1]_vars
    /\ [][(WlUpdateColor /\ result' = "ok")
            => (protocol_connected' /\ surface_closed' = closed')]_vars
    /\ [][(WlUpdateColor /\ protocol_connected /\ ~surface_closed /\ ~closed)
            => /\ connect_count' = connect_count
               /\ disconnect_count' = disconnect_count]_vars

\* with the mock: a reconnect has failed (as many disconnects as connects),
\* connecting works again, and the last update, on the reconnected overlay,
\* only wrote the buffer
C35_Witness ==
    /\ wl = "mock"
    /\ connect_count >= 2
    /\ disconnect_count >= connect_count
    /\ protocol_connected
    /\ ~inject_connect_error
    /\ result = "ok"
    /\ calls = <<"update_buffer">>
\* C36: whenever no call of wake, sleep, activity or set_timeout is under way,
\* the timer task is not between setting the state and sending its timeout
\* transition, and the last pair handed to the channel reached it (a receiver
\* existed), the SystemState in the activation channel is the stored state.
C36_ChannelMatchesState ==
    (/\ CallerIdle
     /\ tpc \notin {"timeout_transition", "timeout_send"}
     /\ lastSent = Borrow)
        => Borrow[1] = state
\* C37: once the task is in its loop, whenever it holds no backend has_error
\* is true; every handler that gives up or fails to get a backend leaves the
\* flag set.
C37_DisconnectedImpliesError ==
    /\ [](opc = "loop" => (overlay = NoBackend => has_error))
    /\ [][(opc' = "loop" /\ overlay' = NoBackend /\ ops' # <<>>) => has_error']_vars

\* a configuration change moved the overlay, the connect at the new position
\* failed, and the task is left without a backend
C37_Witness ==
    /\ opc = "loop"
    /\ overlay = NoBackend
    /\ has_error
    /\ Len(ops) = 3
    /\ ops[1][1] = "drop"
    /\ ops[2][1] = "factory"
    /\ ops[3][1] = "connect" /\ ~ops[3][3]

\* C38: once the task is in its loop, the position of the backend it holds is
\* the cached position of the render state, which is the position parsed
\* from the configuration the task processed last; the reconnection tick
\* calls the factory with that position, and a configuration change makes
\* its factory and connect calls with the position of the new configuration.
C38_BackendAtCachedPosition ==
    /\ []((opc = "loop" /\ overlay # NoBackend)
            => overlay = Backend(cached_position(Ov)))
    /\ [][TickAttempt
            => /\ ops'[1][1] = "factory"
               /\ ops'[1][2] = cached_position(Ov)
               /\ config' = config]_vars
    /\ [][OvConfigChanged
            => \A i \in 1..Len(ops') :
                  ops'[i][1] \in {"factory", "connect"}
                     => ops'[i][2] = parse_position_with_fallback(config')]_vars

\* the task has processed a configuration with another position than the
\* default's and holds a backend connected at that position by its last
\* handler
C38_Witness ==
    /\ opc = "loop"
    /\ config_rx >= 1
    /\ cached_position(Ov) # parse_position_with_fallback(DefaultConfig)
    /\ overlay = Backend(cached_position(Ov))
    /\ \E i \in 1..Len(ops) : ops[i] = <<"connect", cached_position(Ov), TRUE>>

\* The calls of a handler hold a connection attempt that failed: the factory
\* or connect returned Err, or connect returned Ok and both color pushes that
\* followed failed.
AttemptFailed(calls_made) ==
    \E i \in 1..Len(calls_made) :
        \/ calls_made[i][1] \in {"factory", "connect"} /\ ~calls_made[i][3]
        \/ /\ calls_made[i][1] = "connect" /\ calls_made[i][3]
           /\ Len(calls_made) >= i + 2
           /\ calls_made[i + 1][1] = "update_color" /\ ~calls_made[i + 1][3]
           /\ calls_made[i + 2][1] = "update_color" /\ ~calls_made[i + 2][3]

\* The calls of a handler hold a connect that returned Ok and was followed by
\* a color push that succeeded.
AttemptPushed(calls_made) ==
    \E i \in 1..Len(calls_made) :
        /\ calls_made[i][1] = "connect" /\ calls_made[i][3]
        /\ Len(calls_made) >= i + 1
        /\ calls_made[i + 1][1] = "update_color" /\ calls_made[i + 1][3]

\* A step of one of the three callers of connect_and_initialize_backend.
ConnectingHandler == OvStart \/ OvReconnectTick \/ OvConfigChanged

\* C39: a handler whose connection attempt fails leaves attempt_count one
\* higher than it found it, and has_error set; a handler whose connect is
\* followed by a successful color push leaves attempt_count 0 and has_error
\* cleared.
C39_AttemptsCounted ==
    /\ [][(AttemptFailed(ops') /\ ConnectingHandler)
            => /\ recon_attempt_count' = recon_attempt_count + 1
               /\ last_attempt' = now
               /\ has_error'
               /\ overlay' = NoBackend]_vars
    /\ [][(AttemptPushed(ops') /\ ConnectingHandler)
            => /\ recon_attempt_count' = 0
               /\ ~has_error'
               /\ overlay' # NoBackend]_vars

\* two attempts have failed, the second by both color pushes failing after
\* a successful connect
C39_Witness ==
    /\ opc = "loop"
    /\ recon_attempt_count = 2
    /\ has_error
    /\ overlay = NoBackend
    /\ Len(ops) >= 4
    /\ ops[Len(ops) - 2][1] = "connect" /\ ops[Len(ops) - 2][3]
    /\ ~ops[Len(ops) - 1][3]
    /\ ~ops[Len(ops)][3]

\* C40: a handler that finds a backend connected and drops it because the
\* color push and the fallback push of the error color both failed records a
\* reconnection failure: attempt_count is one higher and last_attempt is now.
C40_DoubleFailureRecorded ==
    [][(/\ opc = "loop"
        /\ overlay # NoBackend
        /\ overlay' = NoBackend
        /\ Len(ops') >= 2
        /\ ops'[Len(ops') - 1][1] = "update_color" /\ ~ops'[Len(ops') - 1][3]
        /\ ops'[Len(ops')][1] = "update_color" /\ ~ops'[Len(ops')][3])
          => /\ recon_attempt_count' = recon_attempt_count + 1
             /\ last_attempt' = now]_vars

====
